---- MODULE Spec2Model ----
(***************************************************************************)
(* Model of the chatbot response formatter (formatMessage and the          *)
(* formatters it dispatches to) of src/unnamed/part_000 and                *)
(* src/src/app/chatbot/util.js, and of the chat component of               *)
(* src/src/app/chatbot/home.js that calls it.                              *)
(*                                                                         *)
(* A JavaScript string is a sequence of one-character strings.  The        *)
(* formatter's output is a sequence of output units: a unit is either one  *)
(* character copied from the input text or one literal chunk of a template *)
(* literal (the text between two ${} interpolations) or one configuration  *)
(* string.  Indices are JavaScript's (0-based): At(s, i) is s.charAt(i).   *)
(* Texts are built from LF-terminated lines: the other line terminators    *)
(* (CR, U+2028, U+2029) do not occur in them.                              *)
(***************************************************************************)
EXTENDS Integers, Sequences, FiniteSets, TLC

\* impl: the file whose formatMessage is called; rawInput, optionsInput: its
\* arguments; pc: before ("call") or after ("done") the call; ret: what the
\* call returned; invocations: the finished calls, oldest first
VARIABLES impl, rawInput, optionsInput, pc, ret, invocations

\* the state of the chat component (useState of home.js): messages, inputValue,
\* isLoading, showRating, currentRatingMessageId; requests: the sendMessage
\* calls that got past the empty-text test, each pending (awaiting fetch) or
\* settled; now: the clock that Date.now() reads
VARIABLES messages, inputValue, isLoading, showRating, currentRatingMessageId,
          requests, now

chatVars ==
  <<messages, inputValue, isLoading, showRating, currentRatingMessageId,
    requests, now>>

vars == <<impl, rawInput, optionsInput, pc, ret, invocations, chatVars>>

(***************************************************************************)
(* Characters and character classes of the regular expressions.            *)
(***************************************************************************)
LF == "\n"
TAB == "\t"
BS == "\\"
BULLET == "u2022"
BACKTICK == "u0060"

Digit == {"0", "1", "2", "3", "4", "5", "6", "7", "8", "9"}
WS == {" ", LF, TAB}
BulletChars == {"-", BULLET, "*"}

(***************************************************************************)
(* JavaScript values.                                                      *)
(***************************************************************************)
Null == [t |-> "null"]
Undefined == [t |-> "undefined"]
Num(n) == [t |-> "number", v |-> n]
Bool(b) == [t |-> "boolean", v |-> b]
Str(s) == [t |-> "string", s |-> s]
Obj(o) == [t |-> "object", o |-> o]

Falsy(v) ==
  \/ v.t \in {"null", "undefined"}
  \/ v.t = "number" /\ v.v = 0
  \/ v.t = "boolean" /\ ~v.v
  \/ v.t = "string" /\ v.s = <<>>

(***************************************************************************)
(* String primitives.                                                      *)
(***************************************************************************)
Min(a, b) == IF a < b THEN a ELSE b
Max(a, b) == IF a > b THEN a ELSE b

At(s, i) == s[i + 1]

\* String.prototype.substring(a, b): arguments clamped to [0, length], swapped
\* when a > b.
substring(s, a, b) ==
  LET ca == Min(Max(a, 0), Len(s))
      cb == Min(Max(b, 0), Len(s))
  IN SubSeq(s, Min(ca, cb) + 1, Max(ca, cb))

substringFrom(s, a) == substring(s, a, Len(s))

\* pat occurs in s at index i
OccursAt(s, i, pat) ==
  /\ i >= 0
  /\ i + Len(pat) <= Len(s)
  /\ \A k \in 1..Len(pat) : s[i + k] = pat[k]

includes(s, pat) == \E i \in 0..Len(s) : OccursAt(s, i, pat)

\* String.prototype.indexOf / lastIndexOf: -1 when absent
indexOfFrom(s, pat, from) ==
  IF \E i \in from..Len(s) : OccursAt(s, i, pat)
  THEN CHOOSE i \in from..Len(s) :
         OccursAt(s, i, pat) /\ \A j \in from..(i - 1) : ~OccursAt(s, j, pat)
  ELSE -1

indexOf(s, pat) == indexOfFrom(s, pat, 0)

lastIndexOf(s, pat) ==
  IF includes(s, pat)
  THEN CHOOSE i \in 0..Len(s) :
         OccursAt(s, i, pat) /\ \A j \in (i + 1)..Len(s) : ~OccursAt(s, j, pat)
  ELSE -1

\* index just after the longest run of characters of S that starts at i
RunEnd(s, i, S) ==
  CHOOSE j \in i..Len(s) :
    /\ \A k \in i..(j - 1) : At(s, k) \in S
    /\ j = Len(s) \/ At(s, j) \notin S

\* index just after the longest run of characters outside S that starts at i
RunEndNot(s, i, S) ==
  CHOOSE j \in i..Len(s) :
    /\ \A k \in i..(j - 1) : At(s, k) \notin S
    /\ j = Len(s) \/ At(s, j) \in S

\* String.prototype.trim()
trimStart(s) == substringFrom(s, RunEnd(s, 0, WS))

trimEnd(s) ==
  LET e == CHOOSE j \in 0..Len(s) :
             /\ \A k \in j..(Len(s) - 1) : At(s, k) \in WS
             /\ j = 0 \/ At(s, j - 1) \notin WS
  IN substring(s, 0, e)

trim(s) == trimEnd(trimStart(s))

\* String.prototype.replace(pat, '') with a string pattern: first occurrence only
replaceFirstWithEmpty(s, pat) ==
  LET i == indexOf(s, pat)
  IN IF i < 0 THEN s ELSE substring(s, 0, i) \o substringFrom(s, i + Len(pat))

\* split(/\n/) : the lines of s
RECURSIVE splitLines(_)
splitLines(s) ==
  LET i == indexOf(s, <<LF>>)
  IN IF i < 0 THEN <<s>>
     ELSE <<substring(s, 0, i)>> \o splitLines(substringFrom(s, i + 1))

\* split(/\n{2,}/) : the pieces of s between maximal runs of two or more LF
RECURSIVE splitParagraphs(_)
splitParagraphs(s) ==
  LET i == indexOf(s, <<LF, LF>>)
  IN IF i < 0 THEN <<s>>
     ELSE <<substring(s, 0, i)>>
          \o splitParagraphs(substringFrom(s, RunEnd(s, i, {LF})))

\* replace(/\n/g, '<br>')
replaceNewlinesWithBr(s) ==
  [i \in 1..Len(s) |-> IF s[i] = LF THEN "<br>" ELSE s[i]]

\* Array.prototype.join('') of a sequence of output fragments
RECURSIVE joinAll(_)
joinAll(frags) ==
  IF frags = <<>> THEN <<>> ELSE Head(frags) \o joinAll(Tail(frags))

\* a configuration string interpolated into a template
Interp(str) == IF str = "" THEN <<>> ELSE <<str>>

(***************************************************************************)
(* Entry point: defaults, configuration merge and palette.                 *)
(***************************************************************************)
defaults ==
  [k \in {"theme", "accentColor", "fontClass", "enableAnimations"} |->
     CASE k = "theme" -> "light"
       [] k = "accentColor" -> "#000"
       [] k = "fontClass" -> "font-sans"
       [] k = "enableAnimations" -> TRUE]

defaults_util ==
  [k \in {"theme", "accentColor", "fontClass", "enableAnimations"} |->
     CASE k = "theme" -> "light"
       [] k = "accentColor" -> "#3b82f6"
       [] k = "fontClass" -> "font-sans"
       [] k = "enableAnimations" -> TRUE]

\* the own enumerable properties that ...opts copies: none for null/undefined
OwnProps(opts) == IF opts.t = "object" THEN opts.o ELSE <<>>

\* { ...defs, ...opts }
mergeMutantDefaultsWin(defs, opts) ==
  [k \in DOMAIN defs \cup DOMAIN OwnProps(opts) |->
     IF k \in DOMAIN defs THEN defs[k] ELSE OwnProps(opts)[k]]

\* Object.assign(defaults, options) on one defaults object shared by all calls
mergeMutantSharedDefaults(defs, opts) ==
  [k \in DOMAIN defs \cup DOMAIN OwnProps(opts) |->
     IF k \in DOMAIN OwnProps(opts) THEN OwnProps(opts)[k]
     ELSE IF /\ invocations # <<>>
             /\ k \in DOMAIN OwnProps(invocations[Len(invocations)].options)
          THEN OwnProps(invocations[Len(invocations)].options)[k]
          ELSE defs[k]]

merge(defs, opts) ==
  [k \in DOMAIN defs \cup DOMAIN OwnProps(opts) |->
     IF k \in DOMAIN OwnProps(opts) THEN OwnProps(opts)[k] ELSE defs[k]]

darkPalette(accent) ==
  [background |-> "#1f2937", foreground |-> "#f9fafb", border |-> "#374151",
   accent |-> accent, muted |-> "#9ca3af", highlight |-> "#2d3748"]

lightPalette(accent) ==
  [background |-> "#ffffff", foreground |-> "#111827", border |-> "#e5e7eb",
   accent |-> accent, muted |-> "#6b7280", highlight |-> "#f3f4f6"]

resolveColorsMutantNotLight(config) ==
  IF config.theme # "light"
  THEN darkPalette(config.accentColor)
  ELSE lightPalette(config.accentColor)

resolveColors(config) ==
  IF config.theme = "dark"
  THEN darkPalette(config.accentColor)
  ELSE lightPalette(config.accentColor)

(***************************************************************************)
(* Cleaning and classification.                                            *)
(***************************************************************************)
\* rawData.replace(/\\n/, '\n') without the g flag: first occurrence only
cleanMutantFirstOnly(s) ==
  LET i == indexOf(s, <<BS, "n">>)
  IN IF i < 0 THEN s
     ELSE substring(s, 0, i) \o <<LF>> \o substringFrom(s, i + 2)

\* rawData.replace(/\\n/g, '\n')
\* (a match is a backslash and the n after it, so no two matches overlap: the
\* backslash becomes the line feed and the n is removed, marked "" here)
cleanAt(s, i) ==
  IF OccursAt(s, i - 1, <<BS, "n">>) THEN LF
  ELSE IF OccursAt(s, i - 2, <<BS, "n">>) THEN "" ELSE s[i]

cleanKept(c) == c # ""

clean(s) == SelectSeq([i \in 1..Len(s) |-> cleanAt(s, i)], cleanKept)

\* /\d+\.\s/.test(s)
hasNumberedList(s) ==
  \E i \in 0..(Len(s) - 3) :
    At(s, i) \in Digit /\ At(s, i + 1) = "." /\ At(s, i + 2) \in WS

\* /•|\*\s|-\s/.test(s)
hasBulletPoints(s) ==
  \E i \in 0..(Len(s) - 1) :
    \/ At(s, i) = BULLET
    \/ At(s, i) \in {"*", "-"} /\ i + 1 < Len(s) /\ At(s, i + 1) \in WS

\* /•|\*\s/.test(s)
hasBulletPoints_util(s) ==
  \E i \in 0..(Len(s) - 1) :
    \/ At(s, i) = BULLET
    \/ At(s, i) = "*" /\ i + 1 < Len(s) /\ At(s, i + 1) \in WS

UpperCase == <<"A", "B", "C", "D", "E", "F", "G", "H", "I", "J", "K", "L", "M",
               "N", "O", "P", "Q", "R", "S", "T", "U", "V", "W", "X", "Y", "Z">>
LowerCase == <<"a", "b", "c", "d", "e", "f", "g", "h", "i", "j", "k", "l", "m",
               "n", "o", "p", "q", "r", "s", "t", "u", "v", "w", "x", "y", "z">>

toLower(c) ==
  IF \E k \in 1..26 : UpperCase[k] = c
  THEN LowerCase[CHOOSE k \in 1..26 : UpperCase[k] = c]
  ELSE c

toLowerCase(s) == [k \in 1..Len(s) |-> toLower(s[k])]

ProductKeywords ==
  { <<"a", "v", "a", "i", "l", "a", "b", "l", "e">>,
    <<"c", "o", "l", "o", "r">>,
    <<"o", "p", "t", "i", "o", "n", "s">>,
    <<"f", "i", "n", "i", "s", "h">>,
    <<"s", "i", "z", "e">>,
    <<"m", "a", "t", "e", "r", "i", "a", "l">>,
    <<"d", "i", "m", "e", "n", "s", "i", "o", "n", "s">> }

\* /available|color|options|finish|size|material|dimensions/i.test(s)
isProductLike(s) == \E kw \in ProductKeywords : includes(toLowerCase(s), kw)

\* /^#+ .+$/m.test(s)
hasHeadings(s) ==
  \E i \in 0..(Len(s) - 1) :
    /\ i = 0 \/ At(s, i - 1) = LF
    /\ At(s, i) = "#"
    /\ LET j == RunEnd(s, i, {"#"})
       IN j + 1 < Len(s) /\ At(s, j) = " " /\ At(s, j + 1) # LF

(***************************************************************************)
(* Container and plain text.                                               *)
(***************************************************************************)
wrapInContainer(content, colors, config) ==
  <<"\n    <div class=\"message-container ">> \o Interp(config.fontClass)
  \o <<" ">> \o (IF config.enableAnimations THEN <<"animate-fade-in">> ELSE <<>>)
  \o <<"\" style=\"", "\n    background-color: ">> \o Interp(colors.background)
  \o <<"; \n    color: ">> \o Interp(colors.foreground)
  \o <<";\n  ", "\">\n      ">> \o content \o <<"\n    </div>\n  ">>

plainParagraph(para) ==
  <<"<p class=\"mb-4 leading-relaxed\">">> \o replaceNewlinesWithBr(para) \o <<"</p>">>

formatPlainText(text, colors, config) ==
  LET paras == splitParagraphs(text)
      formatted == joinAll([k \in 1..Len(paras) |-> plainParagraph(paras[k])])
  IN [out |-> wrapInContainer(formatted, colors, config),
      variant |-> "plain", items |-> <<>>]

(***************************************************************************)
(* Bullet lists.                                                           *)
(***************************************************************************)
\* /^[•*-]\s+/m.test(para)
hasBulletLine(para) ==
  \E i \in 0..(Len(para) - 2) :
    /\ i = 0 \/ At(para, i - 1) = LF
    /\ At(para, i) \in BulletChars
    /\ At(para, i + 1) \in WS

\* line.match(/^([•*-])\s+(.+)$/): the match's second group, or "none".
\* \s+ is greedy and gives back its last character when nothing follows it.
bulletMatch(line) ==
  IF Len(line) >= 3 /\ At(line, 0) \in BulletChars /\ At(line, 1) \in WS
  THEN LET e == RunEnd(line, 1, WS)
       IN IF e < Len(line) THEN [found |-> TRUE, text |-> substringFrom(line, e)]
          ELSE [found |-> TRUE, text |-> substringFrom(line, e - 1)]
  ELSE [found |-> FALSE, text |-> <<>>]

ulOpen(colors) ==
  <<"<ul class=\"list-disc pl-5 my-3 space-y-2\" style=\"color: ">>
  \o Interp(colors.foreground) \o <<";\">">>

\* variant of bulletLines for the checks: a non-bullet line leaves the
\* list open
RECURSIVE bulletLinesMutantKeepsOpen(_, _, _, _)
bulletLinesMutantKeepsOpen(lines, k, st, colors) ==
  IF k > Len(lines) THEN st
  ELSE IF bulletMatch(lines[k]).found
       THEN bulletLinesMutantKeepsOpen(lines, k + 1,
              [formatted |->
                 st.formatted
                 \o (IF ~st.inList THEN ulOpen(colors) ELSE <<>>)
                 \o <<"<li class=\"pl-1\">">> \o bulletMatch(lines[k]).text
                 \o <<"</li>">>,
               inList |-> TRUE], colors)
       ELSE bulletLinesMutantKeepsOpen(lines, k + 1,
              [formatted |->
                 st.formatted \o <<"<p class=\"mb-3\">">> \o lines[k]
                 \o <<"</p>">>,
               inList |-> st.inList], colors)

\* lines.forEach over lines[k..]: st is [formatted, inList]
RECURSIVE bulletLines(_, _, _, _)
bulletLines(lines, k, st, colors) ==
  IF k > Len(lines) THEN st
  ELSE LET m == bulletMatch(lines[k])
           next ==
             IF m.found
             THEN [formatted |->
                     st.formatted
                     \o (IF ~st.inList THEN ulOpen(colors) ELSE <<>>)
                     \o <<"<li class=\"pl-1\">">> \o m.text \o <<"</li>">>,
                   inList |-> TRUE]
             ELSE [formatted |->
                     st.formatted
                     \o (IF st.inList THEN <<"</ul>">> ELSE <<>>)
                     \o <<"<p class=\"mb-3\">">> \o lines[k] \o <<"</p>">>,
                   inList |-> FALSE]
       IN bulletLines(lines, k + 1, next, colors)

bulletParagraph(para, colors) ==
  IF hasBulletLine(para)
  THEN LET st == bulletLines(splitLines(para), 1,
                             [formatted |-> <<>>, inList |-> FALSE], colors)
       IN st.formatted \o (IF st.inList THEN <<"</ul>">> ELSE <<>>)
  ELSE <<"<p class=\"mb-4 leading-relaxed\" style=\"color: ">>
       \o Interp(colors.foreground) \o <<";\">">> \o para \o <<"</p>">>

formatBulletPoints(response, colors, config) ==
  LET paragraphs == splitParagraphs(response)
      formattedParagraphs ==
        joinAll([k \in 1..Len(paragraphs) |-> bulletParagraph(paragraphs[k], colors)])
  IN [out |-> wrapInContainer(formattedParagraphs, colors, config),
      variant |-> "bullets", items |-> <<>>]

(***************************************************************************)
(* Markdown headings.                                                      *)
(***************************************************************************)
headingOpen(level, colors) ==
  <<CASE level = 1 -> "<h1 class=\"text-2xl font-bold mb-4 mt-6\" style=\"color: "
      [] level = 2 -> "<h2 class=\"text-xl font-bold mb-3 mt-5\" style=\"color: "
      [] level = 3 -> "<h3 class=\"text-lg font-bold mb-2 mt-4\" style=\"color: ">>
  \o Interp(colors.accent) \o <<";\">">>

headingClose(level) ==
  <<CASE level = 1 -> "</h1>" [] level = 2 -> "</h2>" [] level = 3 -> "</h3>">>

HeadingOpenUnits ==
  {"<h1 class=\"text-2xl font-bold mb-4 mt-6\" style=\"color: ",
   "<h2 class=\"text-xl font-bold mb-3 mt-5\" style=\"color: ",
   "<h3 class=\"text-lg font-bold mb-2 mt-4\" style=\"color: "}

\* formatted.replace(/^#{level} (.+)$/gm, <h{level} ...>$1</h{level}>), from index i
RECURSIVE replaceHeadings(_, _, _, _)
replaceHeadings(s, i, level, colors) ==
  IF i >= Len(s) THEN s
  ELSE LET prefix == [k \in 1..(level + 1) |-> IF k <= level THEN "#" ELSE " "]
           e == RunEndNot(s, i, {LF})
       IN IF OccursAt(s, i, prefix) /\ e > i + level + 1
          THEN LET rep == headingOpen(level, colors)
                          \o substring(s, i + level + 1, e) \o headingClose(level)
                   s2 == substring(s, 0, i) \o rep \o substringFrom(s, e)
               IN replaceHeadings(s2, i + Len(rep) + 1, level, colors)
          ELSE replaceHeadings(s, e + 1, level, colors)

\* the end of the leftmost-shortest d(.+?)d that starts at i, or -1:
\* the least e with d at e and no LF in between, at least one character in between
delimitedEnd(s, i, d) ==
  LET lim == RunEndNot(s, Min(i + Len(d), Len(s)), {LF})
      ok(e) == e >= i + Len(d) + 1 /\ e <= lim /\ OccursAt(s, e, d)
  IN IF OccursAt(s, i, d) /\ \E e \in 0..Len(s) : ok(e)
     THEN CHOOSE e \in 0..Len(s) : ok(e) /\ \A f \in 0..(e - 1) : ~ok(f)
     ELSE -1

\* s.replace(/d(.+?)d/g, open $1 close), from index i
RECURSIVE replaceDelimited(_, _, _, _, _)
replaceDelimited(s, i, d, open, close) ==
  IF i >= Len(s) THEN s
  ELSE LET e == delimitedEnd(s, i, d)
       IN IF e >= 0
          THEN LET rep == open \o substring(s, i + Len(d), e) \o close
                   s2 == substring(s, 0, i) \o rep \o substringFrom(s, e + Len(d))
               IN replaceDelimited(s2, i + Len(rep), d, open, close)
          ELSE replaceDelimited(s, i + 1, d, open, close)

\* para.startsWith('<h') || para.startsWith('<ul')
startsWithBlockTag(para) ==
  \/ para # <<>> /\ para[1] \in HeadingOpenUnits
  \/ OccursAt(para, 0, <<"<", "h">>)
  \/ OccursAt(para, 0, <<"<", "u", "l">>)

markdownParagraph(para, colors) ==
  IF startsWithBlockTag(para) THEN para
  ELSE <<"<p class=\"mb-4 leading-relaxed\" style=\"color: ">>
       \o Interp(colors.foreground) \o <<";\">">>
       \o replaceNewlinesWithBr(para) \o <<"</p>">>

\* the three heading substitutions, level 1 first
markdownHeadings(text, colors) ==
  replaceHeadings(replaceHeadings(replaceHeadings(text, 0, 1, colors),
                                  0, 2, colors),
                  0, 3, colors)

\* bold, then italic, then inline code
markdownInline(text, colors) ==
  replaceDelimited(
    replaceDelimited(
      replaceDelimited(text, 0, <<"*", "*">>, <<"<strong>">>, <<"</strong>">>),
      0, <<"*">>, <<"<em>">>, <<"</em>">>),
    0, <<BACKTICK>>,
    <<"<code class=\"px-1 py-0.5 rounded\" style=\"background-color: ">>
    \o Interp(colors.highlight) \o <<";\">">>,
    <<"</code>">>)

markdownParagraphs(paras, colors) ==
  joinAll([k \in 1..Len(paras) |-> markdownParagraph(paras[k], colors)])

formatMarkdown(text, colors, config) ==
  [out |-> wrapInContainer(
             markdownParagraphs(
               splitParagraphs(markdownInline(markdownHeadings(text, colors), colors)),
               colors),
             colors, config),
   variant |-> "markdown", items |-> <<>>]

(***************************************************************************)
(* Numbered lists: the three segmenters of part_000.                       *)
(***************************************************************************)
\* the lookahead (?=\*\*1\.\*\*|\*\*1\.\s\*\*|1\.\s) at index p
introLookahead(s, p) ==
  \/ OccursAt(s, p, <<"*", "*", "1", ".", "*", "*">>)
  \/ /\ OccursAt(s, p, <<"*", "*", "1", ".">>)
     /\ p + 4 < Len(s) /\ At(s, p + 4) \in WS
     /\ OccursAt(s, p + 5, <<"*", "*">>)
  \/ OccursAt(s, p, <<"1", ".">>) /\ p + 2 < Len(s) /\ At(s, p + 2) \in WS

\* the lookahead (?=1\.\s) at index p
introLookaheadSimple(s, p) ==
  OccursAt(s, p, <<"1", ".">>) /\ p + 2 < Len(s) /\ At(s, p + 2) \in WS

\* response.match(/^(.*?)(?=\*\*1\.\*\*|\*\*1\.\s\*\*|1\.\s)/s), then
\* introMatch ? introMatch[1].trim() : ''
extractIntro(s) ==
  IF \E p \in 0..Len(s) : introLookahead(s, p)
  THEN LET p == CHOOSE q \in 0..Len(s) :
                  introLookahead(s, q) /\ \A r \in 0..(q - 1) : ~introLookahead(s, r)
       IN trim(substring(s, 0, p))
  ELSE <<>>

\* response.match(/^(.*?)(?=1\.\s)/s), then introMatch ? introMatch[1].trim() : ''
extractIntroSimple(s) ==
  IF \E p \in 0..Len(s) : introLookaheadSimple(s, p)
  THEN LET p == CHOOSE q \in 0..Len(s) :
                  introLookaheadSimple(s, q)
                  /\ \A r \in 0..(q - 1) : ~introLookaheadSimple(s, r)
       IN trim(substring(s, 0, p))
  ELSE <<>>

\* \s*\n\s*[^*\d\n] from index q: whitespace holding a line break, then one
\* character that is neither '*', a digit nor a line break.  n is the line break
\* the first \s* backtracks to, m the index of the character.
bodyStartOK(s, q, n, m) ==
  /\ q <= n /\ n < m /\ m < Len(s)
  /\ \A k \in q..(m - 1) : At(s, k) \in WS
  /\ At(s, n) = LF
  /\ At(s, m) \notin (Digit \cup {"*", LF})

\* response.match(/\*\*\d+\.\*\*\s*\n\s*[^*\d\n]+/)
hasBoldNumbersPattern(s) ==
  \E i \in 0..(Len(s) - 1) :
    /\ OccursAt(s, i, <<"*", "*">>)
    /\ i + 2 < Len(s) /\ At(s, i + 2) \in Digit
    /\ LET d == RunEnd(s, i + 2, Digit)
       IN /\ OccursAt(s, d, <<".", "*", "*">>)
          /\ \E n, m \in (d + 3)..(Len(s) - 1) : bodyStartOK(s, d + 3, n, m)

\* response.match(/\d+\.\s+[^\n]+/g) without the !response.includes('**')
hasSimpleListMutantIgnoresBold(s) ==
  \E i \in 0..(Len(s) - 1) :
    /\ At(s, i) \in Digit
    /\ i + 2 < Len(s) /\ At(s, i + 1) = "." /\ At(s, i + 2) \in WS
    /\ \E m \in (i + 3)..(Len(s) - 1) :
         (\A k \in (i + 2)..(m - 1) : At(s, k) \in WS) /\ At(s, m) # LF

\* !response.includes('**') && response.match(/\d+\.\s+[^\n]+/g)
hasSimpleList(s) ==
  /\ ~includes(s, <<"*", "*">>)
  /\ \E i \in 0..(Len(s) - 1) :
       /\ At(s, i) \in Digit
       /\ i + 2 < Len(s) /\ At(s, i + 1) = "." /\ At(s, i + 2) \in WS
       /\ \E m \in (i + 3)..(Len(s) - 1) :
            (\A k \in (i + 2)..(m - 1) : At(s, k) \in WS) /\ At(s, m) # LF

\* /(\d+)\.\s+/g matched at index i: [found, index, number, end]
markerAt(s, i) ==
  IF i < Len(s) /\ At(s, i) \in Digit
  THEN LET d == RunEnd(s, i, Digit)
       IN IF d + 1 < Len(s) /\ At(s, d) = "." /\ At(s, d + 1) \in WS
          THEN [found |-> TRUE, index |-> i, number |-> substring(s, i, d),
                end |-> RunEnd(s, d + 1, WS)]
          ELSE [found |-> FALSE, index |-> i, number |-> <<>>, end |-> i]
  ELSE [found |-> FALSE, index |-> i, number |-> <<>>, end |-> i]

NoMatch(i) == [found |-> FALSE, index |-> i, end |-> i]

\* /(\d+)\.\s+([^\d\n][^\n]*)/g matched at index i.  \s+ is greedy and gives
\* characters back until the one after it is neither a digit nor a line break.
simpleItemAt(s, i) ==
  IF i < Len(s) /\ At(s, i) \in Digit
  THEN LET d == RunEnd(s, i, Digit)
           r == RunEnd(s, Min(d + 1, Len(s)), WS)
           good(m) == m < Len(s) /\ At(s, m) \notin (Digit \cup {LF})
       IN IF /\ d + 1 < Len(s) /\ At(s, d) = "." /\ At(s, d + 1) \in WS
             /\ \E m \in (d + 2)..r : good(m)
          THEN LET m == CHOOSE x \in (d + 2)..r :
                          good(x) /\ \A y \in (x + 1)..r : ~good(y)
                   e == RunEndNot(s, m, {LF})
               IN [found |-> TRUE, index |-> i, end |-> e,
                   number |-> substring(s, i, d),
                   content |-> trim(substring(s, m, e))]
          ELSE NoMatch(i)
  ELSE NoMatch(i)

\* /\*\*(\d+)\.(?:\*\*|\s\*\*)\s*\n\s*([^*\d\n][^\n]*)/g matched at index i.
\* The first \s* backtracks to the last line break n of the whitespace run after
\* which a body character m exists; the second \s* to the last such m.
boldItemAt(s, i) ==
  LET good(m) == m < Len(s) /\ At(s, m) \notin (Digit \cup {"*", LF})
      okN(n, r) == At(s, n) = LF /\ \E m \in (n + 1)..r : good(m)
      item(d, m, e) ==
        [found |-> TRUE, index |-> i, end |-> e,
         number |-> substring(s, i + 2, d),
         content |-> trim(substring(s, m, e))]
      atM(d, m) == item(d, m, RunEndNot(s, m, {LF}))
      atN(d, r, n) ==
        atM(d, CHOOSE x \in (n + 1)..r : good(x) /\ \A y \in (x + 1)..r : ~good(y))
      atR(d, q, r) ==
        IF q >= 0 /\ \E n \in q..(r - 1) : okN(n, r)
        THEN atN(d, r, CHOOSE x \in q..(r - 1) :
                         okN(x, r) /\ \A y \in (x + 1)..(r - 1) : ~okN(y, r))
        ELSE NoMatch(i)
      atQ(d, q) == atR(d, q, IF q < 0 THEN -1 ELSE RunEnd(s, q, WS))
      atD(d) ==
        atQ(d, IF OccursAt(s, d, <<".", "*", "*">>) THEN d + 3
               ELSE IF /\ d + 1 < Len(s) /\ At(s, d) = "." /\ At(s, d + 1) \in WS
                       /\ OccursAt(s, d + 2, <<"*", "*">>)
                    THEN d + 4 ELSE -1)
  IN IF OccursAt(s, i, <<"*", "*">>) /\ i + 2 < Len(s) /\ At(s, i + 2) \in Digit
     THEN atD(RunEnd(s, i + 2, Digit))
     ELSE NoMatch(i)

\* /\*\*(\d+\.\s+[^*]+)\*\*/g matched at index i
headerBoldAt(s, i) ==
  IF OccursAt(s, i, <<"*", "*">>) /\ i + 2 < Len(s) /\ At(s, i + 2) \in Digit
  THEN LET d == RunEnd(s, i + 2, Digit)
           x == RunEndNot(s, Min(d + 1, Len(s)), {"*"})
       IN IF /\ d + 1 < Len(s) /\ At(s, d) = "." /\ At(s, d + 1) \in WS
             /\ x >= d + 3 /\ OccursAt(s, x, <<"*", "*">>)
          THEN [found |-> TRUE, index |-> i, end |-> x + 2,
                text |-> substring(s, i, x + 2),
                group |-> substring(s, i + 2, x)]
          ELSE NoMatch(i)
  ELSE NoMatch(i)

\* /\*\*([^*]+)\*\*/g matched at index i
titleBoldAt(s, i) ==
  IF OccursAt(s, i, <<"*", "*">>)
  THEN LET x == RunEndNot(s, i + 2, {"*"})
       IN IF x > i + 2 /\ OccursAt(s, x, <<"*", "*">>)
          THEN [found |-> TRUE, index |-> i, end |-> x + 2,
                text |-> substring(s, i, x + 2)]
          ELSE NoMatch(i)
  ELSE NoMatch(i)

\* /\*\*(.*?)\*\*/g matched at index i: the nearest closing ** on the same line
lazyBoldAt(s, i) ==
  LET lim == RunEndNot(s, Min(i + 2, Len(s)), {LF})
      ok(e) == e >= i + 2 /\ e <= lim /\ OccursAt(s, e, <<"*", "*">>)
  IN IF OccursAt(s, i, <<"*", "*">>) /\ \E e \in 0..Len(s) : ok(e)
     THEN LET e == CHOOSE x \in 0..Len(s) : ok(x) /\ \A y \in 0..(x - 1) : ~ok(y)
          IN [found |-> TRUE, index |-> i, end |-> e + 2,
              text |-> substring(s, i, e + 2)]
     ELSE NoMatch(i)

\* one repetition of /(?:[-•*]\s+.*(?:\n|$))+/g at index i, which is also one
\* match of /[-•*]\s+(.*?)(?:\n|$)/g inside the group; item is
\* item.replace(/^[-•*]\s+/, '').trim()
bulletUnitAt(s, i) ==
  IF i + 1 < Len(s) /\ At(s, i) \in BulletChars /\ At(s, i + 1) \in WS
  THEN LET r == RunEnd(s, i + 1, WS)
           le == RunEndNot(s, r, {LF})
       IN [found |-> TRUE, index |-> i, end |-> Min(le + 1, Len(s)),
           item |-> trim(substring(s, r, le))]
  ELSE NoMatch(i)

\* /\s+and\s+/g matched at index i
andAt(s, i) ==
  IF i < Len(s) /\ At(s, i) \in WS
  THEN LET r == RunEnd(s, i, WS)
       IN IF OccursAt(s, r, <<"a", "n", "d">>) /\ r + 3 < Len(s) /\ At(s, r + 3) \in WS
          THEN [found |-> TRUE, index |-> i, end |-> RunEnd(s, r + 3, WS)]
          ELSE NoMatch(i)
  ELSE NoMatch(i)

\* /\*\*(\d+\.?)\*\*/g matched at index i
boldNumberAt(s, i) ==
  IF OccursAt(s, i, <<"*", "*">>) /\ i + 2 < Len(s) /\ At(s, i + 2) \in Digit
  THEN LET d == RunEnd(s, i + 2, Digit)
       IN IF OccursAt(s, d, <<".", "*", "*">>)
          THEN [found |-> TRUE, index |-> i, end |-> d + 3,
                group |-> substring(s, i + 2, d + 1)]
          ELSE IF OccursAt(s, d, <<"*", "*">>)
               THEN [found |-> TRUE, index |-> i, end |-> d + 2,
                     group |-> substring(s, i + 2, d)]
               ELSE NoMatch(i)
  ELSE NoMatch(i)

\* /-\s+\*\*(.*?):\*\*\s+(.*?)(?=\s+-\s+\*\*|$)/gs matched at index i
subItemLookahead(s, e) ==
  \/ e = Len(s)
  \/ /\ e < Len(s) /\ At(s, e) \in WS
     /\ LET x == RunEnd(s, e, WS)
        IN /\ x + 1 < Len(s) /\ At(s, x) = "-" /\ At(s, x + 1) \in WS
           /\ OccursAt(s, RunEnd(s, x + 1, WS), <<"*", "*">>)

subItemAt(s, i) ==
  IF i + 1 < Len(s) /\ At(s, i) = "-" /\ At(s, i + 1) \in WS
  THEN LET r == RunEnd(s, i + 1, WS)
           okC(c) == /\ c >= r + 2 /\ OccursAt(s, c, <<":", "*", "*">>)
                     /\ c + 3 < Len(s) /\ At(s, c + 3) \in WS
       IN IF OccursAt(s, r, <<"*", "*">>) /\ \E c \in 0..Len(s) : okC(c)
          THEN LET c == CHOOSE x \in 0..Len(s) : okC(x) /\ \A y \in 0..(x - 1) : ~okC(y)
                   r2 == RunEnd(s, c + 3, WS)
                   e == CHOOSE x \in r2..Len(s) :
                          subItemLookahead(s, x)
                          /\ \A y \in r2..(x - 1) : ~subItemLookahead(s, y)
               IN [found |-> TRUE, index |-> i, end |-> e,
                   subHeading |-> trim(substring(s, r + 2, c)),
                   subDescription |-> trim(substring(s, r2, e))]
          ELSE NoMatch(i)
  ELSE NoMatch(i)

\* the regular expression named re matched at index i of s
matchAt(re, s, i) ==
  CASE re = "marker" -> markerAt(s, i)
    [] re = "simpleItem" -> simpleItemAt(s, i)
    [] re = "boldItem" -> boldItemAt(s, i)
    [] re = "headerBold" -> headerBoldAt(s, i)
    [] re = "titleBold" -> titleBoldAt(s, i)
    [] re = "lazyBold" -> lazyBoldAt(s, i)
    [] re = "bulletUnit" -> bulletUnitAt(s, i)
    [] re = "and" -> andAt(s, i)
    [] re = "boldNumber" -> boldNumberAt(s, i)
    [] re = "subItem" -> subItemAt(s, i)

\* the matches of re in s from index i on, leftmost first, each search resuming
\* where the previous match ended
RECURSIVE matchAllFrom(_, _, _)
RECURSIVE matchAllNext(_, _, _, _)
matchAllNext(re, s, i, m) ==
  IF m.found
  THEN <<m>> \o matchAllFrom(re, s, Max(m.end, i + 1))
  ELSE matchAllFrom(re, s, i + 1)

matchAllFrom(re, s, i) ==
  IF i >= Len(s) THEN <<>> ELSE matchAllNext(re, s, i, matchAt(re, s, i))

reverseSeq(q) == [k \in 1..Len(q) |-> q[Len(q) + 1 - k]]

matchAllMutantReversed(re, s) == reverseSeq(matchAllFrom(re, s, 0))

\* [...s.matchAll(re)], s.match(re) with the g flag, the re.exec(s) loop
matchAll(re, s) == matchAllFrom(re, s, 0)

\* textAfterLastNumber.match(/\n\s*\n/): index of the match, or -1
doubleNewlineIndex(t) ==
  LET ok(n) == /\ n < Len(t) /\ At(t, n) = LF
               /\ \E m \in (n + 1)..(Len(t) - 1) :
                    (\A k \in (n + 1)..(m - 1) : At(t, k) \in WS) /\ At(t, m) = LF
  IN IF \E n \in 0..(Len(t) - 1) : ok(n)
     THEN CHOOSE n \in 0..(Len(t) - 1) : ok(n) /\ \A k \in 0..(n - 1) : ~ok(k)
     ELSE -1

\* /^\s*\n\s*\n/.test(t)
startsWithDoubleNewline(t) ==
  \E n, m \in 0..(Len(t) - 1) :
    /\ n < m /\ At(t, n) = LF /\ At(t, m) = LF
    /\ \A k \in 0..(m - 1) : At(t, k) \in WS

\* t.replace(/^\s*\n\s*\n/, ''): both \s* greedy, so up to the last line break of
\* the leading whitespace
stripLeadingDoubleNewline(t) ==
  IF startsWithDoubleNewline(t)
  THEN LET r == RunEnd(t, 0, WS)
           last == CHOOSE m \in 0..(r - 1) :
                     At(t, m) = LF /\ \A k \in (m + 1)..(r - 1) : At(t, k) # LF
       IN substringFrom(t, last + 1)
  ELSE t

\* the last item running to the end of the text, double newline or not
generalContentMutantToEnd(s, ms, k) ==
  trim(substring(s, ms[k].end, IF k < Len(ms) THEN ms[k + 1].index ELSE Len(s)))

\* the general variant's items: content of marker k of the matches ms
generalContent(s, ms, k) ==
  LET startPos == ms[k].end
      endPos ==
        IF k < Len(ms) THEN ms[k + 1].index
        ELSE LET dn == doubleNewlineIndex(substringFrom(s, startPos))
             IN IF dn >= 0 THEN startPos + dn ELSE Len(s)
  IN trim(substring(s, startPos, endPos))

generalItems(s, ms) ==
  [k \in 1..Len(ms) |->
     [number |-> ms[k].number, content |-> generalContent(s, ms, k),
      index |-> ms[k].index]]

conclusionOfRemaining(remainingText) ==
  IF remainingText # <<>> /\ startsWithDoubleNewline(remainingText)
  THEN trim(stripLeadingDoubleNewline(remainingText))
  ELSE IF remainingText # <<>> /\ matchAll("marker", remainingText) = <<>>
       THEN trim(remainingText)
       ELSE <<>>

\* lastMatch.index + lastMatch[0].length + items[items.length - 1].content.length
generalLastItemEndPos(last, items) ==
  last.index + (last.end - last.index) + Len(items[Len(items)].content)

generalConclusion(s, ms, items) ==
  conclusionOfRemaining(
    trim(substringFrom(s, generalLastItemEndPos(ms[Len(ms)], items))))

(***************************************************************************)
(* Item renderers of part_000.                                             *)
(***************************************************************************)
\* s.replace(/\*\*/g, '')
RECURSIVE removeBoldMarkers(_)
removeBoldMarkers(s) ==
  IF s = <<>> THEN <<>>
  ELSE IF OccursAt(s, 0, <<"*", "*">>) THEN removeBoldMarkers(substringFrom(s, 2))
       ELSE <<Head(s)>> \o removeBoldMarkers(Tail(s))

\* s.replace(/\*\*(\d+\.?)\*\*/g, '$1')
RECURSIVE unboldNumbers(_, _)
unboldNumbers(s, i) ==
  IF i >= Len(s) THEN s
  ELSE LET m == boldNumberAt(s, i)
       IN IF m.found
          THEN unboldNumbers(substring(s, 0, i) \o m.group \o substringFrom(s, m.end),
                             i + Len(m.group))
          ELSE unboldNumbers(s, i + 1)

\* s.replace(/^\s*:\s*/, '')
stripLeadingColon(s) ==
  LET r == RunEnd(s, 0, WS)
  IN IF r < Len(s) /\ At(s, r) = ":"
     THEN substringFrom(s, RunEnd(s, r + 1, WS))
     ELSE s

\* s.replace(/\s+and\s+/g, ' ')
RECURSIVE replaceAnds(_, _)
replaceAnds(s, i) ==
  IF i >= Len(s) THEN s
  ELSE LET m == andAt(s, i)
       IN IF m.found
          THEN replaceAnds(substring(s, 0, i) \o <<" ">> \o substringFrom(s, m.end), i + 1)
          ELSE replaceAnds(s, i + 1)

\* texts.join(' and ')
RECURSIVE joinAnd(_)
joinAnd(texts) ==
  IF texts = <<>> THEN <<>>
  ELSE IF Len(texts) = 1 THEN texts[1]
       ELSE texts[1] \o <<" ", "a", "n", "d", " ">> \o joinAnd(Tail(texts))

\* matches.forEach(match => { remaining = remaining.replace(match, '') })
RECURSIVE removeEach(_, _)
removeEach(remaining, texts) ==
  IF texts = <<>> THEN remaining
  ELSE removeEach(replaceFirstWithEmpty(remaining, Head(texts)), Tail(texts))

\* Array.prototype.filter
RECURSIVE filterSeq(_, _)
filterSeq(q, keep) ==
  IF q = <<>> THEN <<>>
  ELSE (IF keep[1] THEN <<Head(q)>> ELSE <<>>)
       \o filterSeq(Tail(q), Tail(keep))

countDigits(s) == Cardinality({k \in 1..Len(s) : s[k] \in Digit})

\* the filter of formatProductItem: a bold span that looks like a product code,
\* content.length < 10 && (/^\d+\.?$/.test(content) || /\d/.test(content) &&
\* content.replace(/\D/g, '').length > content.length / 2)
looksLikeProductCode(content) ==
  /\ Len(content) < 10
  /\ \/ /\ content # <<>> /\ content[1] \in Digit
        /\ LET d == RunEnd(content, 0, Digit)
           IN d = Len(content) \/ (d = Len(content) - 1 /\ At(content, d) = ".")
     \/ countDigits(content) > 0 /\ 2 * countDigits(content) > Len(content)

\* remainingContent.match(/Available\s+in\s+(.*?)(?=\n\n|$)/is): [found, group]
availableInAt(s, i) ==
  LET low == toLowerCase(s)
      r == RunEnd(s, Min(i + 9, Len(s)), WS)
      r2 == RunEnd(s, Min(r + 2, Len(s)), WS)
  IN /\ OccursAt(low, i, <<"a", "v", "a", "i", "l", "a", "b", "l", "e">>)
     /\ r > i + 9
     /\ OccursAt(low, r, <<"i", "n">>)
     /\ r2 > r + 2

availableInMatch(s) ==
  IF \E i \in 0..Len(s) : availableInAt(s, i)
  THEN LET i == CHOOSE x \in 0..Len(s) :
                  availableInAt(s, x) /\ \A y \in 0..(x - 1) : ~availableInAt(s, y)
           r == RunEnd(s, i + 9, WS)
           r2 == RunEnd(s, r + 2, WS)
           dn == indexOfFrom(s, <<LF, LF>>, r2)
       IN [found |-> TRUE,
           group |-> substring(s, r2, IF dn < 0 THEN Len(s) ELSE dn)]
  ELSE [found |-> FALSE, group |-> <<>>]

\* the filter over the bold spans: TRUE for the spans that are kept
notProductCode(boldMatches) ==
  [k \in 1..Len(boldMatches) |->
     ~looksLikeProductCode(trim(removeBoldMarkers(boldMatches[k].text)))]

titleFromTitleMatches(content, titleMatches) ==
  IF Len(titleMatches) > 0
  THEN [title |->
          joinAnd([k \in 1..Len(titleMatches) |->
                     trim(removeBoldMarkers(titleMatches[k].text))]),
        remaining |->
          removeEach(content,
                     [k \in 1..Len(titleMatches) |-> titleMatches[k].text])]
  ELSE [title |-> <<>>, remaining |-> content]

titleFromBoldMatches(content, boldMatches) ==
  titleFromTitleMatches(content, filterSeq(boldMatches, notProductCode(boldMatches)))

titleFromHeaderMatches(content, headerMatches) ==
  IF Len(headerMatches) > 0
  THEN [title |-> trim(headerMatches[1].group),
        remaining |-> replaceFirstWithEmpty(content, headerMatches[1].text)]
  ELSE titleFromBoldMatches(content, matchAll("titleBold", content))

productTitle(content) ==
  titleFromHeaderMatches(content, matchAll("headerBold", content))

\* .map(item => item.replace(/^[-•*]\s+/, '').trim()).filter(item => item.length > 0)
nonEmptyItems(units) ==
  filterSeq([k \in 1..Len(units) |-> units[k].item],
            [k \in 1..Len(units) |-> units[k].item # <<>>])

productListItems(remainingContent) ==
  nonEmptyItems(matchAll("bulletUnit", remainingContent))

featuredContent(remainingContent, avail) ==
  IF avail.found THEN unboldNumbers(trim(avail.group), 0) ELSE remainingContent

productItemHtml(item, title, remainingContent, listItems, avail, colors) ==
  <<"\n    <div class=\"product-item px-4 py-[2px]\"\n         style=\"border-color: ">>
  \o Interp(colors.border) \o <<"; background-color: ">>
  \o Interp(colors.background)
  \o <<";\">\n      <h3 class=\"text-[16px] font-semibold mb-2\" style=\"color: ">>
  \o Interp(colors.accent) \o <<";\">\n        ">>
  \o item.number \o <<".", " ">> \o title
  \o <<"\n      </h3>\n      \n      ">>
  \o (IF Len(listItems) > 0
      THEN <<"\n        <ul class=\"list-disc pl-8 mt-2 space-y-1 mb-3 text-[14px]\">\n          ">>
           \o joinAll([k \in 1..Len(listItems) |->
                         <<"<li style=\"color: ">> \o Interp(colors.foreground)
                         \o <<";\">">> \o listItems[k] \o <<"</li>">>])
           \o <<"\n        </ul>\n      ">>
      ELSE <<"\n        <div class=\"py-1 text-[14px]\" style=\"color: ">>
           \o Interp(colors.foreground) \o <<";\">\n          ">>
           \o (IF avail.found THEN <<"Available in ">> ELSE <<>>)
           \o featuredContent(remainingContent, avail)
           \o <<"\n        </div>\n      ">>)
  \o <<"\n    </div>\n  ">>

productItemBody(item, title, remainingContent, colors) ==
  productItemHtml(item, title, remainingContent,
                  productListItems(remainingContent),
                  availableInMatch(remainingContent), colors)

productItemTitled(item, t, colors) ==
  productItemBody(item, t.title,
                  stripLeadingColon(unboldNumbers(trim(t.remaining), 0)), colors)

formatProductItem(item, colors, config) ==
  productItemTitled(item, productTitle(item.content), colors)

\* item.content.match(/\*\*(.*?):\*\*\s+(.*)/s): [found, mainHeading, content]
mainCategoryAt(s, i, c) ==
  /\ OccursAt(s, i, <<"*", "*">>)
  /\ c >= i + 2
  /\ OccursAt(s, c, <<":", "*", "*">>)
  /\ c + 3 < Len(s) /\ At(s, c + 3) \in WS

mainCategoryMatch(s) ==
  IF \E i, c \in 0..Len(s) : mainCategoryAt(s, i, c)
  THEN LET i == CHOOSE x \in 0..Len(s) :
                  /\ \E c \in 0..Len(s) : mainCategoryAt(s, x, c)
                  /\ \A y \in 0..(x - 1) : \A c \in 0..Len(s) : ~mainCategoryAt(s, y, c)
           c == CHOOSE x \in 0..Len(s) :
                  /\ mainCategoryAt(s, i, x)
                  /\ \A y \in 0..(x - 1) : ~mainCategoryAt(s, i, y)
       IN [found |-> TRUE,
           mainHeading |-> trim(substring(s, i + 2, c)),
           content |-> trim(substringFrom(s, RunEnd(s, c + 3, WS)))]
  ELSE [found |-> FALSE, mainHeading |-> <<>>, content |-> <<>>]

\* trimmedLine.match(/^[-•*]\s+/)
isBulletLine(t) == Len(t) >= 2 /\ At(t, 0) \in BulletChars /\ At(t, 1) \in WS

\* variant of scanContentLines for the checks: a line without bullet sign
\* is a text line wherever it stands
RECURSIVE scanContentLinesMutantNoContinuation(_, _, _)
scanContentLinesMutantNoContinuation(lines, k, st) ==
  IF k > Len(lines) THEN st
  ELSE IF isBulletLine(trim(lines[k]))
       THEN scanContentLinesMutantNoContinuation(lines, k + 1,
              [st EXCEPT !.currentList =
                 Append(@, substringFrom(trim(lines[k]),
                                         RunEnd(trim(lines[k]), 1, WS)))])
       ELSE IF trim(lines[k]) # <<>>
            THEN scanContentLinesMutantNoContinuation(lines, k + 1,
                   [st EXCEPT !.bulletPoints =
                      Append(@, [type |-> "text", content |-> trim(lines[k]),
                                 items |-> <<>>])])
            ELSE scanContentLinesMutantNoContinuation(lines, k + 1, st)

\* contentLines.forEach over lines[k..]: st is [bulletPoints, currentList]
RECURSIVE scanContentLines(_, _, _)
scanContentLines(lines, k, st) ==
  IF k > Len(lines) THEN st
  ELSE LET trimmedLine == trim(lines[k])
           n == Len(st.currentList)
           next ==
             IF isBulletLine(trimmedLine)
             THEN [st EXCEPT !.currentList =
                     Append(@, substringFrom(trimmedLine, RunEnd(trimmedLine, 1, WS)))]
             ELSE IF trimmedLine # <<>> /\ n > 0
                  THEN [st EXCEPT !.currentList[n] = @ \o <<" ">> \o trimmedLine]
                  ELSE IF trimmedLine # <<>>
                       THEN [st EXCEPT !.bulletPoints =
                               Append(@, [type |-> "text", content |-> trimmedLine,
                                          items |-> <<>>])]
                       ELSE st
       IN scanContentLines(lines, k + 1, next)

\* if (currentList.length > 0) bulletPoints.push({ type: 'list', items: currentList })
flushCurrentList(st) ==
  IF Len(st.currentList) > 0
  THEN Append(st.bulletPoints,
              [type |-> "list", content |-> <<>>, items |-> st.currentList])
  ELSE st.bulletPoints

genericBulletPoints(remainingContent) ==
  flushCurrentList(scanContentLines(splitLines(remainingContent), 1,
                                    [bulletPoints |-> <<>>, currentList |-> <<>>]))

renderPoint(point) ==
  IF point.type = "list"
  THEN <<"\n                <ul class=\"list-disc pl-4 my-2 space-y-1 text-[14px]\">\n                  ">>
       \o joinAll([k \in 1..Len(point.items) |->
                     <<"<li>">> \o point.items[k] \o <<"</li>">>])
       \o <<"\n                </ul>\n              ">>
  ELSE <<"<p class=\"mb-2\">">> \o point.content \o <<"</p>">>

\* the title and remaining content of the fallback branch
titleFromLines(content, lines) ==
  IF Len(lines) > 1
  THEN [hasBoldTitle |-> FALSE,
        title |-> trim(lines[1]),
        remaining |-> trim(joinAll([k \in 1..(Len(lines) - 1) |->
                         (IF k > 1 THEN <<LF>> ELSE <<>>) \o lines[k + 1]]))]
  ELSE [hasBoldTitle |-> FALSE, title |-> <<>>, remaining |-> content]

\* content.split('\n').filter(line => line.trim())
nonBlankLines(allLines) ==
  filterSeq(allLines, [k \in 1..Len(allLines) |-> trim(allLines[k]) # <<>>])

titleFromCombined(content, texts, combinedTitle) ==
  [hasBoldTitle |-> TRUE,
   title |-> IF combinedTitle # <<>> /\ combinedTitle[Len(combinedTitle)] = ":"
             THEN substring(combinedTitle, 0, Len(combinedTitle) - 1)
             ELSE combinedTitle,
   remaining |-> trim(replaceAnds(removeEach(content, texts), 0))]

titleFromBoldTexts(content, texts) ==
  titleFromCombined(content, texts,
                    joinAnd([k \in 1..Len(texts) |-> trim(removeBoldMarkers(texts[k]))]))

titleFromLazyBold(content, boldMatches) ==
  IF Len(boldMatches) > 0
  THEN titleFromBoldTexts(content, [k \in 1..Len(boldMatches) |-> boldMatches[k].text])
  ELSE titleFromLines(content, nonBlankLines(splitLines(content)))

genericTitle(content) ==
  titleFromLazyBold(content, matchAll("lazyBold", content))

subItemsOf(mc) == IF mc.found THEN matchAll("subItem", mc.content) ELSE <<>>

bulletPointsHtml(bulletPoints) ==
  joinAll([k \in 1..Len(bulletPoints) |-> renderPoint(bulletPoints[k])])

genericItemFallback(item, t, colors) ==
  IF ~t.hasBoldTitle /\ t.title = <<>>
  THEN <<"\n      <div class=\"list-item mb-3\">\n        <p class=\"pl-1 leading-relaxed\" style=\"color: ">>
       \o Interp(colors.foreground)
       \o <<";\">\n          <span style=\"color: ">>
       \o Interp(colors.accent) \o <<"; font-weight: 500;\">">>
       \o item.number \o <<".</span> ">> \o t.remaining
       \o <<"\n        </p>\n      </div>\n    ">>
  ELSE <<"\n      <div class=\"list-item mb-4\">\n        <h3 class=\"text-lg font-semibold\" style=\"color: ">>
       \o Interp(colors.accent) \o <<";\">\n          ">>
       \o item.number \o <<".", " ">> \o t.title
       \o <<"\n        </h3>\n        <div class=\"pl-6 mt-2 leading-relaxed\" style=\"color: ">>
       \o Interp(colors.foreground) \o <<";\">\n          ">>
       \o bulletPointsHtml(genericBulletPoints(t.remaining))
       \o <<"\n        </div>\n      </div>\n    ">>

genericItemCategorized(item, mc, subItems, colors) ==
  IF Len(subItems) > 0
  THEN <<"\n        <div class=\"list-item mb-4\">\n          <h3 class=\"text-lg font-semibold\" style=\"color: ">>
       \o Interp(colors.accent) \o <<";\">\n            ">>
       \o item.number \o <<".", " ">> \o mc.mainHeading
       \o <<"\n          </h3>\n          <div class=\"pl-6 mt-2 leading-relaxed text-[14px]\" style=\"color: ">>
       \o Interp(colors.foreground) \o <<";\">\n            ">>
       \o joinAll([k \in 1..Len(subItems) |->
            <<"\n          <div class=\"sub-item my-2\">\n            <p class=\"font-medium\" style=\"color: ">>
            \o Interp(colors.foreground)
            \o <<";\">\n              <span style=\"color: ">>
            \o Interp(colors.accent) \o <<";\">">>
            \o subItems[k].subHeading \o <<":</span> ">>
            \o subItems[k].subDescription
            \o <<"\n            </p>\n          </div>\n        ">>])
       \o <<"\n          </div>\n        </div>\n      ">>
  ELSE genericItemFallback(item, genericTitle(item.content), colors)

genericItemMatched(item, mc, colors) ==
  genericItemCategorized(item, mc, subItemsOf(mc), colors)

formatGenericListItem(item, colors, config) ==
  genericItemMatched(item, mainCategoryMatch(item.content), colors)

(***************************************************************************)
(* formatNumberedList of part_000 and its two special-case formatters.     *)
(***************************************************************************)
NoSegments == [fragments |-> <<>>, introText |-> <<>>, conclusionText |-> <<>>]

listItemFragment(item, numberStyle, colors) ==
  <<"\n    <div class=\"simple-list-item mb-2\">\n      <p class=\"pl-1 leading-relaxed\" style=\"color: ">>
  \o Interp(colors.foreground) \o <<";\">\n        <span style=\"">>
  \o numberStyle \o <<"\">">> \o item.number \o <<".</span> ">> \o item.content
  \o <<"\n      </p>\n    </div>\n  ">>

simpleListContent(introText, formattedItems, conclusionText) ==
  <<"\n    ">>
  \o (IF introText # <<>>
      THEN <<"<div class=\" leading-relaxed p-[10px]\">">>
           \o replaceNewlinesWithBr(introText) \o <<"</div>">>
      ELSE <<>>)
  \o <<"\n    <div class=\"simple-list-container m-2\">\n      ">>
  \o formattedItems
  \o <<"\n    </div>\n    ">>
  \o (IF conclusionText # <<>>
      THEN <<"<div class=\" leading-relaxed p-[10px]\">">>
           \o replaceNewlinesWithBr(conclusionText) \o <<"</div>">>
      ELSE <<>>)
  \o <<"\n  ">>

\* items numbered by their position in the list instead of by their markers
itemsOfMutantRenumbered(matches) ==
  [k \in 1..Len(matches) |->
     [number |-> <<<<"1", "2", "3", "4", "5", "6", "7", "8", "9">>[k]>>,
      content |-> matches[k].content, index |-> matches[k].index]]

itemsOf(matches) ==
  [k \in 1..Len(matches) |->
     [number |-> matches[k].number, content |-> matches[k].content,
      index |-> matches[k].index]]

\* textAfterLastItem.match(/\n(.*)/s), then conclusionMatch[1].trim()
conclusionAfterNewline(t) ==
  LET n == indexOf(t, <<LF>>)
  IN IF n < 0 THEN <<>> ELSE trim(substringFrom(t, n + 1))

\* the object the two special-case formatters return
simpleListResult(variant, intro, items, conclusionText, fragments, colors, config) ==
  [out |-> wrapInContainer(
             simpleListContent(intro, joinAll(fragments), conclusionText),
             colors, config),
   variant |-> variant, items |-> items, fragments |-> fragments,
   introText |-> intro, conclusionText |-> conclusionText]

simpleListRender(variant, intro, items, conclusionText, numberStyle, colors, config) ==
  simpleListResult(variant, intro, items, conclusionText,
                   [k \in 1..Len(items) |->
                      listItemFragment(items[k], numberStyle, colors)],
                   colors, config)

lastItemEndPos(matches) ==
  IF Len(matches) > 0 THEN matches[Len(matches)].end ELSE 0

simpleConclusion(response, matches) ==
  IF Len(matches) > 0 /\ lastItemEndPos(matches) < Len(response)
  THEN conclusionAfterNewline(substringFrom(response, lastItemEndPos(matches)))
  ELSE <<>>

simpleListSegment(response, intro, matches, colors, config) ==
  simpleListRender("simple", intro, itemsOf(matches),
                   simpleConclusion(response, matches),
                   <<"font-weight: normal;">>, colors, config)

formatSimpleNumberedList(response, colors, config) ==
  simpleListSegment(response, extractIntroSimple(response),
                    matchAll("simpleItem", response), colors, config)

\* textAfterLastItem.match(/\n\s*\n([\s\S]+)$/), then conclusionMatch[1].trim()
conclusionAfterBlankLine(t) ==
  LET ok(n, m) == /\ n < m /\ m + 1 < Len(t)
                  /\ At(t, n) = LF /\ At(t, m) = LF
                  /\ \A k \in (n + 1)..(m - 1) : At(t, k) \in WS
      idx == 0..(Len(t) - 1)
  IN IF \E n, m \in idx : ok(n, m)
     THEN LET n == CHOOSE x \in idx :
                     /\ \E m \in idx : ok(x, m)
                     /\ \A y \in 0..(x - 1) : \A m \in idx : ~ok(y, m)
              m == CHOOSE x \in idx : ok(n, x) /\ \A y \in (x + 1)..(Len(t) - 1) : ~ok(n, y)
          IN trim(substringFrom(t, m + 1))
     ELSE <<>>

lastItemPos(response, last) ==
  lastIndexOf(response, <<"*", "*">> \o last.number \o <<".">>)

textAfterLastItem(response, last) ==
  substringFrom(response, lastItemPos(response, last) + Len(last.content) + 10)

boldListSegment(response, intro, items, colors, config) ==
  IF Len(items) = 0
  THEN formatPlainText(response, colors, config) @@ NoSegments
  ELSE simpleListRender(
         "boldNumbers", intro, items,
         conclusionAfterBlankLine(textAfterLastItem(response, items[Len(items)])),
         <<"color: ">> \o Interp(colors.accent) \o <<"; font-weight: 500;">>,
         colors, config)

formatBoldNumbersList(response, intro, colors, config) ==
  boldListSegment(response, intro, itemsOf(matchAll("boldItem", response)),
                  colors, config)

generalListContent(intro, fragments, conclusionText) ==
  <<"\n    ">>
  \o (IF intro # <<>>
      THEN <<"<div class=\"leading-relaxed px-[10px] py-[2px] text-[14px]\">">>
           \o replaceNewlinesWithBr(intro) \o <<"</div>">>
      ELSE <<>>)
  \o <<"\n    <div class=\"list-container m-2\">\n      ">>
  \o joinAll(fragments)
  \o <<"\n    </div>\n    ">>
  \o (IF conclusionText # <<>>
      THEN <<"<div class=\"mt-[2px] leading-relaxed px-[10px] py-[2px] text-[14px]\">">>
           \o replaceNewlinesWithBr(conclusionText) \o <<"</div>">>
      ELSE <<>>)
  \o <<"\n  ">>

generalListResult(intro, items, conclusionText, fragments, colors, config) ==
  [out |-> wrapInContainer(generalListContent(intro, fragments, conclusionText),
                           colors, config),
   variant |-> "general", items |-> items, fragments |-> fragments,
   introText |-> intro, conclusionText |-> conclusionText]

generalListRender(intro, items, conclusionText, isProductList, colors, config) ==
  generalListResult(intro, items, conclusionText,
                    [k \in 1..Len(items) |->
                       IF isProductList
                       THEN formatProductItem(items[k], colors, config)
                       ELSE formatGenericListItem(items[k], colors, config)],
                    colors, config)

generalListItems(response, intro, allMatches, items, isProductList, colors, config) ==
  generalListRender(intro, items, generalConclusion(response, allMatches, items),
                    isProductList, colors, config)

generalListSegment(response, intro, allMatches, isProductList, colors, config) ==
  IF Len(allMatches) = 0
  THEN formatPlainText(response, colors, config) @@ NoSegments
  ELSE generalListItems(response, intro, allMatches,
                        generalItems(response, allMatches),
                        isProductList, colors, config)

numberedListVariant(response, intro, isProductList, colors, config) ==
  IF hasBoldNumbersPattern(response)
  THEN formatBoldNumbersList(response, intro, colors, config)
  ELSE IF hasSimpleList(response)
       THEN formatSimpleNumberedList(response, colors, config)
       ELSE generalListSegment(response, intro, matchAll("marker", response),
                               isProductList, colors, config)

formatNumberedList(response, isProductList, colors, config) ==
  numberedListVariant(response, extractIntro(response), isProductList, colors, config)

(***************************************************************************)
(* formatMessage of part_000.                                              *)
(***************************************************************************)
\* if (!rawData) return ''
emptyInputMutantNullOnly(rawData) == rawData.t \in {"null", "undefined"}

emptyInput(rawData) == Falsy(rawData)

\* what one call returned, with the values it computed on the way
formatMessageResult(cleanData, config, colors, r) ==
  [kind |-> "return", value |-> r.out, shape |-> r.shape,
   cleanData |-> cleanData, config |-> config, colors |-> colors,
   variant |-> r.variant, items |-> r.items, fragments |-> r.fragments,
   introText |-> r.introText, conclusionText |-> r.conclusionText]

\* the if-chain with the bullet test moved before the numbered-list test
formatByShapeMutantBulletsFirst(cleanData, colors, config) ==
  IF hasBulletPoints(cleanData)
  THEN [shape |-> "BulletList"]
       @@ formatBulletPoints(cleanData, colors, config) @@ NoSegments
  ELSE IF hasNumberedList(cleanData)
       THEN [shape |-> "NumberedList"]
            @@ formatNumberedList(cleanData, isProductLike(cleanData), colors, config)
       ELSE IF hasHeadings(cleanData)
            THEN [shape |-> "Heading"]
                 @@ formatMarkdown(cleanData, colors, config) @@ NoSegments
            ELSE [shape |-> "PlainText"]
                 @@ formatPlainText(cleanData, colors, config) @@ NoSegments

\* the if-chain on the shape of the cleaned text; shape names the formatter called
formatByShape(cleanData, colors, config) ==
  IF hasNumberedList(cleanData)
  THEN [shape |-> "NumberedList"]
       @@ formatNumberedList(cleanData, isProductLike(cleanData), colors, config)
  ELSE IF hasBulletPoints(cleanData)
       THEN [shape |-> "BulletList"]
            @@ formatBulletPoints(cleanData, colors, config) @@ NoSegments
       ELSE IF hasHeadings(cleanData)
            THEN [shape |-> "Heading"]
                 @@ formatMarkdown(cleanData, colors, config) @@ NoSegments
            ELSE [shape |-> "PlainText"]
                 @@ formatPlainText(cleanData, colors, config) @@ NoSegments

formatClean(cleanData, config, colors) ==
  formatMessageResult(cleanData, config, colors,
                      formatByShape(cleanData, colors, config))

formatRaw(rawData, config, colors) ==
  IF emptyInput(rawData)
  THEN [kind |-> "return", value |-> <<>>, shape |-> "None", cleanData |-> <<>>,
        config |-> <<>>, colors |-> <<>>, variant |-> "none", items |-> <<>>]
       @@ NoSegments
  ELSE IF rawData.t # "string"
       THEN \* rawData.replace is not a function
            [kind |-> "throw", value |-> <<>>, shape |-> "None",
             cleanData |-> <<>>, config |-> config, colors |-> colors,
             variant |-> "none", items |-> <<>>] @@ NoSegments
       ELSE formatClean(clean(rawData.s), config, colors)

formatConfigured(rawData, config) ==
  formatRaw(rawData, config, resolveColors(config))

formatMessage(rawData, options) ==
  formatConfigured(rawData, merge(defaults, options))

(***************************************************************************)
(* util.js: its own numbered-list segmenter and item renderers.            *)
(***************************************************************************)
\* /(\d+)\.\s+(.*?)(?=(?:\n\n\d+\.)|$)/gs matched at index i
itemLookahead_util(t, e) ==
  \/ e = Len(t)
  \/ /\ OccursAt(t, e, <<LF, LF>>)
     /\ e + 2 < Len(t) /\ At(t, e + 2) \in Digit
     /\ OccursAt(t, RunEnd(t, e + 2, Digit), <<".">>)

itemAt_util(t, i) ==
  IF i < Len(t) /\ At(t, i) \in Digit
  THEN LET d == RunEnd(t, i, Digit)
       IN IF d + 1 < Len(t) /\ At(t, d) = "." /\ At(t, d + 1) \in WS
          THEN LET r == RunEnd(t, d + 1, WS)
                   e == CHOOSE x \in r..Len(t) :
                          itemLookahead_util(t, x)
                          /\ \A y \in r..(x - 1) : ~itemLookahead_util(t, y)
               IN [found |-> TRUE, index |-> i, end |-> e,
                   number |-> substring(t, i, d),
                   content |-> trim(substring(t, r, e))]
          ELSE NoMatch(i)
  ELSE NoMatch(i)

\* the itemRegex.exec(response + "\n\n") loop
RECURSIVE execAll_util(_, _)
execAll_util(t, i) ==
  IF i >= Len(t) THEN <<>>
  ELSE LET m == itemAt_util(t, i)
       IN IF m.found THEN <<m>> \o execAll_util(t, Max(m.end, i + 1))
          ELSE execAll_util(t, i + 1)

\* response.match(new RegExp(`${number}\\.\\s+.*?\\n\\n(.*)$`, 's')), then
\* conclusionMatch ? conclusionMatch[1].trim() : ''.  \s+ is greedy: the blank
\* line is the first one after the whitespace run, else the last one inside it.
conclusion_util(s, number) ==
  LET pat == number \o <<".">>
      startOK(p) == /\ OccursAt(s, p, pat)
                    /\ p + Len(pat) < Len(s) /\ At(s, p + Len(pat)) \in WS
                    /\ indexOfFrom(s, <<LF, LF>>, p + Len(pat) + 1) >= 0
  IN IF \E p \in 0..Len(s) : startOK(p)
     THEN LET p == CHOOSE x \in 0..Len(s) : startOK(x) /\ \A y \in 0..(x - 1) : ~startOK(y)
              r == RunEnd(s, p + Len(pat), WS)
              after == indexOfFrom(s, <<LF, LF>>, r)
              e == IF after >= 0 THEN after
                   ELSE CHOOSE x \in (p + Len(pat) + 1)..Len(s) :
                          /\ OccursAt(s, x, <<LF, LF>>)
                          /\ \A y \in (x + 1)..Len(s) : ~OccursAt(s, y, <<LF, LF>>)
          IN trim(substringFrom(s, e + 2))
     ELSE <<>>

\* the pattern table of formatProductItem, rows 1 to 18: the keyword in lower
\* case (the regular expressions carry the i flag), whether [:\s] must follow,
\* and the key.  Rows 2, 4, 10 and 11 have optional parts, see patternEnd_util.
patterns_util ==
  <<[kw |-> <<"a", "v", "a", "i", "l", "a", "b", "l", "e", " ", "i", "n">>, sep |-> FALSE, key |-> "Available Sizes"],
     [kw |-> <<"c", "o", "l", "o", "r", " ", "o", "p", "t", "i", "o", "n", "s">>, sep |-> TRUE, key |-> "Color Options"],
     [kw |-> <<"c", "h", "o", "o", "s", "e", " ", "b", "e", "t", "w", "e", "e", "n">>, sep |-> FALSE, key |-> "Options"],
     [kw |-> <<>>, sep |-> TRUE, key |-> "Leg Finish"],
     [kw |-> <<"m", "a", "t", "e", "r", "i", "a", "l">>, sep |-> TRUE, key |-> "Material"],
     [kw |-> <<"c", "o", "m", "e", "s", " ", "w", "i", "t", "h">>, sep |-> FALSE, key |-> "Includes"],
     [kw |-> <<"m", "a", "d", "e", " ", "o", "f">>, sep |-> FALSE, key |-> "Material"],
     [kw |-> <<"s", "i", "z", "e">>, sep |-> TRUE, key |-> "Size"],
     [kw |-> <<"d", "i", "m", "e", "n", "s", "i", "o", "n", "s">>, sep |-> TRUE, key |-> "Dimensions"],
     [kw |-> <<"f", "e", "a", "t", "u", "r", "e">>, sep |-> TRUE, key |-> "Features"],
     [kw |-> <<"s", "p", "e", "c", "i", "a", "l", " ", "f", "e", "a", "t", "u", "r", "e">>, sep |-> TRUE, key |-> "Special Features"],
     [kw |-> <<"p", "r", "i", "c", "e">>, sep |-> TRUE, key |-> "Price"],
     [kw |-> <<"w", "e", "i", "g", "h", "t">>, sep |-> TRUE, key |-> "Weight"],
     [kw |-> <<"r", "a", "t", "i", "n", "g">>, sep |-> TRUE, key |-> "Rating"],
     [kw |-> <<"w", "a", "r", "r", "a", "n", "t", "y">>, sep |-> TRUE, key |-> "Warranty"],
     [kw |-> <<"a", "s", "s", "e", "m", "b", "l", "y">>, sep |-> TRUE, key |-> "Assembly"],
     [kw |-> <<"s", "h", "i", "p", "p", "i", "n", "g">>, sep |-> TRUE, key |-> "Shipping"],
     [kw |-> <<"d", "e", "l", "i", "v", "e", "r", "y">>, sep |-> TRUE, key |-> "Delivery"]>>

Sep == WS \cup {":"}

sepAt(low, e) == e < Len(low) /\ At(low, e) \in Sep

kwInclude == <<"i", "n", "c", "l", "u", "d", "e">>
kwOptions == <<"o", "p", "t", "i", "o", "n", "s">>
kwFinish == <<"f", "i", "n", "i", "s", "h">>
kwLeg == <<"l", "e", "g">>

\* row k matched at index i of the lower-cased line: the index where \s*(.*)
\* starts, or -1
patternEnd_util(k, low, i) ==
  LET afterInclude(e, r) ==
        IF OccursAt(low, r, kwInclude) /\ sepAt(low, r + 7) THEN r + 8
        ELSE IF sepAt(low, e) THEN e + 1 ELSE -1
      afterHead(h) ==
        IF h < 0 \/ ~OccursAt(low, h, <<" ">>) THEN -1
        ELSE IF OccursAt(low, h + 1, kwOptions) /\ sepAt(low, h + 8) THEN h + 9
             ELSE IF OccursAt(low, h + 1, kwFinish) /\ sepAt(low, h + 7) THEN h + 8
                  ELSE IF sepAt(low, h + 1) THEN h + 2 ELSE -1
      row(kw, sep, e) ==
        CASE k = 2 ->
               \* /Color options(?:\s*include)?[:\s]\s*(.*)/i
               IF ~OccursAt(low, i, kw) THEN -1
               ELSE afterInclude(e, RunEnd(low, Min(e, Len(low)), WS))
          [] k = 4 ->
               \* /(?:[Ll]eg|[Ff]inish) (?:options|finish)?[:\s]\s*(.*)/i
               afterHead(IF OccursAt(low, i, kwLeg) THEN i + 3
                         ELSE IF OccursAt(low, i, kwFinish) THEN i + 6 ELSE -1)
          [] k \in {10, 11} ->
               \* /[Ff]eatures?[:\s]\s*(.*)/i, /[Ss]pecial [Ff]eatures?[:\s]\s*(.*)/i
               IF ~OccursAt(low, i, kw) THEN -1
               ELSE IF OccursAt(low, e, <<"s">>) /\ sepAt(low, e + 1) THEN e + 2
                    ELSE IF sepAt(low, e) THEN e + 1 ELSE -1
          [] OTHER ->
               IF ~OccursAt(low, i, kw) THEN -1
               ELSE IF ~sep THEN e
                    ELSE IF sepAt(low, e) THEN e + 1 ELSE -1
      rowOf(p) == row(p.kw, p.sep, i + Len(p.kw))
  IN rowOf(patterns_util[k])

\* line.match(pattern.regex) for row k: [found, group], group being match[1]
patternOk_util(k, low, i) == patternEnd_util(k, low, i) >= 0

patternGroup_util(line, e) ==
  [found |-> TRUE, group |-> substringFrom(line, RunEnd(line, e, WS))]

patternFirst_util(k, line, low) ==
  IF \E i \in 0..Len(line) : patternOk_util(k, low, i)
  THEN patternGroup_util(line,
         patternEnd_util(k, low,
           CHOOSE x \in 0..Len(line) :
             patternOk_util(k, low, x) /\ \A y \in 0..(x - 1) : ~patternOk_util(k, low, y)))
  ELSE [found |-> FALSE, group |-> <<>>]

patternMatch_util(k, line) == patternFirst_util(k, line, toLowerCase(line))

\* row 19, /•\s+(.*?):\s*(.*)/i, with match[1] && match[2]: [found, key, value]
bulletKeyValue_util(line) ==
  LET ok(i, c) == /\ i + 1 < Len(line) /\ At(line, i) = BULLET /\ At(line, i + 1) \in WS
                  /\ c >= RunEnd(line, i + 1, WS) /\ c < Len(line) /\ At(line, c) = ":"
      idx == 0..Len(line)
  IN IF \E i, c \in idx : ok(i, c)
     THEN LET i == CHOOSE x \in idx :
                     /\ \E c \in idx : ok(x, c)
                     /\ \A y \in 0..(x - 1) : \A c \in idx : ~ok(y, c)
              c == CHOOSE x \in idx : ok(i, x) /\ \A y \in 0..(x - 1) : ~ok(i, y)
              key == substring(line, RunEnd(line, i + 1, WS), c)
              value == substringFrom(line, RunEnd(line, c + 1, WS))
          IN [found |-> key # <<>> /\ value # <<>>,
              key |-> trim(key), value |-> trim(value)]
     ELSE [found |-> FALSE, key |-> <<>>, value |-> <<>>]

\* row 20, /^\s*•\s+(.*)/im, with match[1]: [found, value]
bulletFeature_util(line) ==
  LET r == RunEnd(line, 0, WS)
  IN IF r + 1 < Len(line) /\ At(line, r) = BULLET /\ At(line, r + 1) \in WS
     THEN LET v == substringFrom(line, RunEnd(line, r + 1, WS))
          IN [found |-> v # <<>>, value |-> trim(v)]
     ELSE [found |-> FALSE, value |-> <<>>]

\* line.match(/^\s*([^:]+):\s*(.+)$/): [found, key, value]
genericKeyValue_util(line) ==
  LET c == indexOf(line, <<":">>)
  IN IF c >= 1 /\ c + 1 < Len(line)
     THEN LET r == RunEnd(line, 0, WS)
              \* ^\s* gives characters back so that [^:]+ is not empty
              k0 == IF r >= c THEN c - 1 ELSE r
              \* \s* gives its last character back to (.+) when nothing follows
              v0 == RunEnd(line, c + 1, WS)
              v == IF v0 < Len(line) THEN v0 ELSE Len(line) - 1
          IN [found |-> TRUE, key |-> trim(substring(line, k0, c)),
              value |-> trim(substringFrom(line, v))]
     ELSE [found |-> FALSE, key |-> <<>>, value |-> <<>>]

\* the first row of the table that yields a feature for the line, rows k..20
RECURSIVE firstPattern_util(_, _)
RECURSIVE tableRow_util(_, _, _, _)
tableRow_util(line, k, m, key) ==
  IF m.found /\ m.group # <<>>
  THEN [found |-> TRUE, row |-> k, key |-> <<key>>, value |-> trim(m.group)]
  ELSE firstPattern_util(line, k + 1)

RECURSIVE keyValueRow_util(_, _)
keyValueRow_util(line, m) ==
  IF m.found
  THEN [found |-> TRUE, row |-> 19, key |-> m.key, value |-> m.value]
  ELSE firstPattern_util(line, 20)

featureRow_util(m) ==
  IF m.found
  THEN [found |-> TRUE, row |-> 20, key |-> <<"Feature">>, value |-> m.value]
  ELSE [found |-> FALSE, row |-> 0, key |-> <<>>, value |-> <<>>]

firstPattern_util(line, k) ==
  IF k <= 18
  THEN tableRow_util(line, k, patternMatch_util(k, line), patterns_util[k].key)
  ELSE IF k = 19
       THEN keyValueRow_util(line, bulletKeyValue_util(line))
       ELSE featureRow_util(bulletFeature_util(line))

\* the features of one line: at most one
genericFeature_util(kv) ==
  IF kv.found
  THEN <<[found |-> TRUE, row |-> 21, key |-> kv.key, value |-> kv.value]>>
  ELSE <<>>

tableFeature_util(line, m) ==
  IF m.found THEN <<m>> ELSE genericFeature_util(genericKeyValue_util(line))

lineFeatures_util(line) == tableFeature_util(line, firstPattern_util(line, 1))

featuresOfLines_util(contentLines) ==
  joinAll([k \in 1..Len(contentLines) |-> lineFeatures_util(contentLines[k])])

extractFeatures_util(content) == featuresOfLines_util(splitLines(content))

\* item.content.match(/^(.*?)(?:\.|\n|$)/), then titleMatch[1].trim()
productTitle_util(content) ==
  trim(substring(content, 0, RunEndNot(content, 0, {".", LF})))

productItemHtml_util(item, title, features, colors) ==
  <<"\n    <div class=\"product-item mb-6 p-4 border rounded-lg shadow-sm transition-shadow duration-300 hover:shadow-md\" \n         style=\"border-color: ">>
  \o Interp(colors.border) \o <<"; background-color: ">>
  \o Interp(colors.background)
  \o <<";\">\n      <h3 class=\"text-lg font-semibold mb-2\" style=\"color: ">>
  \o Interp(colors.accent) \o <<";\">\n        ">>
  \o item.number \o <<".", " ">> \o title
  \o <<"\n      </h3>\n      \n      ">>
  \o (IF Len(features) > 0
      THEN <<"\n        <div class=\"mt-3 grid gap-2\">\n          ">>
           \o joinAll([k \in 1..Len(features) |->
                <<"\n            <div class=\"flex flex-wrap py-1 border-b\" style=\"border-color: ">>
                \o Interp(colors.border)
                \o <<";\">\n              <span class=\"font-medium mr-2 min-w-[140px]\" style=\"color: ">>
                \o Interp(colors.muted) \o <<";\">\n                ">>
                \o features[k].key
                \o <<":\n              </span> \n              <span class=\"flex-1\" style=\"color: ">>
                \o Interp(colors.foreground) \o <<";\">\n                ">>
                \o features[k].value
                \o <<"\n              </span>\n            </div>\n          ">>])
           \o <<"\n        </div>\n      ">>
      ELSE <<"\n        <p class=\"mt-2 pl-3 leading-relaxed\" style=\"color: ">>
           \o Interp(colors.foreground) \o <<";\">\n          ">>
           \o replaceNewlinesWithBr(trim(substringFrom(item.content, Len(title) + 1)))
           \o <<"\n        </p>\n      ">>)
  \o <<"\n    </div>\n  ">>

formatProductItem_util(item, colors, config) ==
  productItemHtml_util(item, productTitle_util(item.content),
                       extractFeatures_util(item.content), colors)

\* item.content.split(/\.\s+/)
RECURSIVE splitSentences_util(_, _)
splitSentences_util(s, i) ==
  IF i >= Len(s) THEN <<s>>
  ELSE IF At(s, i) = "." /\ i + 1 < Len(s) /\ At(s, i + 1) \in WS
       THEN <<substring(s, 0, i)>>
            \o splitSentences_util(substringFrom(s, RunEnd(s, i + 1, WS)), 0)
       ELSE splitSentences_util(s, i + 1)

genericItemHtml_util(item, title, restContent, colors, config) ==
  <<"\n    <div class=\"list-item mb-4 ">>
  \o (IF config.enableAnimations
      THEN <<"transition-all duration-300 hover:translate-x-1">> ELSE <<>>)
  \o <<"\">\n      <h3 class=\"text-lg font-semibold\" style=\"color: ">>
  \o Interp(colors.accent) \o <<";\">\n        ">>
  \o item.number \o <<".", " ">> \o title
  \o <<"\n      </h3>\n      <div class=\"pl-6 mt-2 leading-relaxed\" style=\"color: ">>
  \o Interp(colors.foreground) \o <<";\">\n        ">>
  \o (IF restContent # <<>>
      THEN <<"<p>">> \o replaceNewlinesWithBr(restContent) \o <<"</p>">>
      ELSE <<>>)
  \o <<"\n      </div>\n    </div>\n  ">>

\* parts[0] is the title, parts.slice(1).join('. ').trim() the rest
genericItemParts_util(item, parts, colors, config) ==
  genericItemHtml_util(
    item, parts[1],
    trim(joinAll([k \in 1..(Len(parts) - 1) |->
                    (IF k > 1 THEN <<".", " ">> ELSE <<>>) \o parts[k + 1]])),
    colors, config)

formatGenericListItem_util(item, colors, config) ==
  genericItemParts_util(item, splitSentences_util(item.content, 0), colors, config)

listContent_util(intro, fragments, conclusionText) ==
  <<"\n    ">>
  \o (IF intro # <<>>
      THEN <<"<div class=\"mb-6 leading-relaxed\">">>
           \o replaceNewlinesWithBr(intro) \o <<"</div>">>
      ELSE <<>>)
  \o <<"\n    <div class=\"list-container space-y-4\">\n      ">>
  \o joinAll(fragments)
  \o <<"\n    </div>\n    ">>
  \o (IF conclusionText # <<>>
      THEN <<"<div class=\"mt-6 leading-relaxed\">">>
           \o replaceNewlinesWithBr(conclusionText) \o <<"</div>">>
      ELSE <<>>)
  \o <<"\n  ">>

listResult_util(intro, items, conclusionText, fragments, colors, config) ==
  [out |-> wrapInContainer(listContent_util(intro, fragments, conclusionText),
                           colors, config),
   variant |-> "util", items |-> items, fragments |-> fragments,
   introText |-> intro, conclusionText |-> conclusionText]

listRender_util(intro, items, conclusionText, isProductList, colors, config) ==
  listResult_util(intro, items, conclusionText,
                  [k \in 1..Len(items) |->
                     IF isProductList
                     THEN formatProductItem_util(items[k], colors, config)
                     ELSE formatGenericListItem_util(items[k], colors, config)],
                  colors, config)

listSegment_util(response, intro, items, isProductList, colors, config) ==
  IF Len(items) = 0
  THEN formatPlainText(response, colors, config) @@ NoSegments
  ELSE listRender_util(intro, items,
                       conclusion_util(response, items[Len(items)].number),
                       isProductList, colors, config)

formatNumberedList_util(response, isProductList, colors, config) ==
  listSegment_util(response, extractIntroSimple(response),
                   itemsOf(execAll_util(response \o <<LF, LF>>, 0)),
                   isProductList, colors, config)

(***************************************************************************)
(* formatMessage of util.js.                                               *)
(***************************************************************************)
\* the if-chain on the shape of the cleaned text; shape names the formatter called
formatByShape_util(cleanData, colors, config) ==
  IF hasNumberedList(cleanData)
  THEN [shape |-> "NumberedList"]
       @@ formatNumberedList_util(cleanData, isProductLike(cleanData), colors, config)
  ELSE IF hasBulletPoints_util(cleanData)
       THEN [shape |-> "BulletList"]
            @@ formatBulletPoints(cleanData, colors, config) @@ NoSegments
       ELSE IF hasHeadings(cleanData)
            THEN [shape |-> "Heading"]
                 @@ formatMarkdown(cleanData, colors, config) @@ NoSegments
            ELSE [shape |-> "PlainText"]
                 @@ formatPlainText(cleanData, colors, config) @@ NoSegments

formatClean_util(cleanData, config, colors) ==
  formatMessageResult(cleanData, config, colors,
                      formatByShape_util(cleanData, colors, config))

formatRaw_util(rawData, config, colors) ==
  IF emptyInput(rawData)
  THEN [kind |-> "return", value |-> <<>>, shape |-> "None", cleanData |-> <<>>,
        config |-> <<>>, colors |-> <<>>, variant |-> "none", items |-> <<>>]
       @@ NoSegments
  ELSE IF rawData.t # "string"
       THEN \* rawData.replace is not a function
            [kind |-> "throw", value |-> <<>>, shape |-> "None",
             cleanData |-> <<>>, config |-> config, colors |-> colors,
             variant |-> "none", items |-> <<>>] @@ NoSegments
       ELSE formatClean_util(clean(rawData.s), config, colors)

formatConfigured_util(rawData, config) ==
  formatRaw_util(rawData, config, resolveColors(config))

formatMessage_util(rawData, options) ==
  formatConfigured_util(rawData, merge(defaults_util, options))

(***************************************************************************)
(* The chat component of home.js: its messages and its state when mounted. *)
(***************************************************************************)
WelcomeText == <<"Hey there! How can I help you today?">>
FallbackText == <<"Sorry, I could not process your request.">>
ErrorText ==
  <<"Sorry, there was an error processing your request. Please try again later.">>

\* a message object; a key the object literal does not have reads as FALSE
\* (rating: "none"); the time key, a display string, is left out
Message(id, text, sender) ==
  [id |-> id, text |-> text, sender |-> sender, showQuickResponses |-> FALSE,
   showRating |-> FALSE, isHTML |-> FALSE, rated |-> FALSE, rating |-> "none"]

welcomeMessage(id) ==
  [Message(id, WelcomeText, "bot") EXCEPT !.showQuickResponses = TRUE]

userMessage(id, messageText) == Message(id, messageText, "user")

botMessage(id, text) ==
  [Message(id, text, "bot") EXCEPT !.showRating = TRUE, !.isHTML = TRUE]

errorMessage(id) == Message(id, ErrorText, "bot")

\* the component after its first render and the effect that adds the welcome
\* message, at time 0
ChatMounted ==
  /\ messages = <<welcomeMessage(0)>>
  /\ inputValue = <<>>
  /\ isLoading = FALSE
  /\ showRating = FALSE
  /\ currentRatingMessageId = Null
  /\ requests = <<>>
  /\ now = 0

(***************************************************************************)
(* The caller: one invocation of formatMessage on an input it was handed.  *)
(***************************************************************************)
NotCalled == [kind |-> "none"]

\* one finished invocation: what it was handed and what it gave back
Invocation(rawData, options, result) ==
  [rawData |-> rawData, options |-> options, result |-> result]

\* every text that is the concatenation of at most n pieces
Concats(pieces, n) ==
  UNION {{joinAll(q) : q \in [1..k -> pieces]} : k \in 0..n}

\* an option object: each of the four recognized keys and one unrecognized key
\* (debug) is either absent ("-") or bound to the given value
OptionObject(theme, accentColor, fontClass, enableAnimations, debug) ==
  LET chosen == [theme |-> theme, accentColor |-> accentColor, fontClass |-> fontClass,
                 enableAnimations |-> enableAnimations, debug |-> debug]
      keys == {k \in DOMAIN chosen : chosen[k] # "-"}
  IN Obj([k \in keys |->
            IF k = "enableAnimations" THEN chosen[k] = "true" ELSE chosen[k]])

OptionObjects ==
  {OptionObject(t, a, f, e, d) :
     t \in {"-", "light", "dark", "blue"}, a \in {"-", "#f00"},
     f \in {"-", "font-serif"}, e \in {"-", "true", "false"}, d \in {"-", "on"}}

OptionInputs == OptionObjects \cup {Undefined, Null}

Call ==
  /\ pc = "call"
  /\ impl = "part_000"
  /\ ret' = formatMessage(rawInput, optionsInput)
  /\ invocations' = Append(invocations, Invocation(rawInput, optionsInput, ret'))
  /\ pc' = "done"
  /\ UNCHANGED <<impl, rawInput, optionsInput, chatVars>>

CallUtil ==
  /\ pc = "call"
  /\ impl = "util"
  /\ ret' = formatMessage_util(rawInput, optionsInput)
  /\ invocations' = Append(invocations, Invocation(rawInput, optionsInput, ret'))
  /\ pc' = "done"
  /\ UNCHANGED <<impl, rawInput, optionsInput, chatVars>>

Next == Call \/ CallUtil

(***************************************************************************)
(* SpecConfig: a few texts under every option object.                      *)
(***************************************************************************)
ConfigRaws ==
  {Null, Undefined, Str(<<>>),
   Str(<<"h", "i">>),
   Str(<<"1", ".", " ", "a", LF, "2", ".", " ", "b">>),
   Str(<<"1", ".", " ", "*", "*", "a", "*", "*", " ", "s", "i", "z", "e">>),
   Str(<<"*", " ", "a", LF, "*", " ", "b">>),
   Str(<<"#", " ", "T", LF, LF, BACKTICK, "c", BACKTICK>>)}

InitConfig ==
  /\ impl \in {"part_000", "util"}
  /\ rawInput \in ConfigRaws
  /\ optionsInput \in OptionInputs
  /\ pc = "call"
  /\ ret = NotCalled
  /\ invocations = <<>>
  /\ ChatMounted

SpecConfig == InitConfig /\ [][Next]_vars

(***************************************************************************)
(* Empty input, palette and configuration (checked under SpecConfig).      *)
(***************************************************************************)
\* the unit u occurs in the output out
hasUnit(out, u) == \E k \in 1..Len(out) : out[k] = u

\* C1: formatMessage returns exactly the empty string, with no container
\* wrapper, whenever the raw input is the empty string, null or undefined,
\* under every configuration object.
C1_EmptyInputGivesEmptyString ==
  (pc = "done" /\ rawInput \in {Str(<<>>), Null, Undefined})
    => (ret.kind = "return" /\ ret.value = <<>>)

C1_Witness ==
  /\ pc = "done"
  /\ rawInput = Str(<<>>)
  /\ optionsInput.t = "object" /\ "theme" \in DOMAIN optionsInput.o
  /\ ret.value = <<>>

\* C5: the palette is a total function of (theme, accentColor): the dark
\* palette exactly when theme is 'dark', the light palette for every other
\* theme value, and in both cases its accent is the configured accentColor;
\* the palette's background and foreground are the ones written to the output.
C5_PaletteByTheme ==
  (pc = "done" /\ ret.kind = "return" /\ ret.shape # "None") =>
    /\ ret.colors.accent = ret.config.accentColor
    /\ (ret.config.theme = "dark") <=>
         (ret.colors =
            [background |-> "#1f2937", foreground |-> "#f9fafb", border |-> "#374151",
             accent |-> ret.config.accentColor, muted |-> "#9ca3af",
             highlight |-> "#2d3748"])
    /\ (ret.config.theme # "dark") <=>
         (ret.colors =
            [background |-> "#ffffff", foreground |-> "#111827", border |-> "#e5e7eb",
             accent |-> ret.config.accentColor, muted |-> "#6b7280",
             highlight |-> "#f3f4f6"])
    /\ hasUnit(ret.value, ret.colors.background)
    /\ hasUnit(ret.value, ret.colors.foreground)

C5_Witness ==
  /\ pc = "done" /\ ret.kind = "return" /\ ret.shape # "None"
  /\ ret.config.theme = "blue" /\ ret.config.accentColor = "#f00"
  /\ ret.colors.background = "#ffffff" /\ ret.colors.accent = "#f00"

\* the defaults the claim names, and the default accent of each source file
C6_Default(k) ==
  CASE k = "theme" -> "light"
    [] k = "fontClass" -> "font-sans"
    [] k = "enableAnimations" -> TRUE
    [] k = "accentColor" -> IF impl = "part_000" THEN "#000" ELSE "#3b82f6"

C6_Recognized == {"theme", "accentColor", "fontClass", "enableAnimations"}

\* the option object without its keys outside the four recognized ones
C6_RecognizedOnly(options) ==
  IF options.t = "object"
  THEN Obj([k \in DOMAIN options.o \cap C6_Recognized |-> options.o[k]])
  ELSE options

C6_Output(options) ==
  IF impl = "part_000"
  THEN formatMessage(rawInput, options).value
  ELSE formatMessage_util(rawInput, options).value

\* C6: the effective configuration is a shallow merge of the caller's options
\* over the defaults: an omitted key keeps its default, a supplied key takes
\* the caller's value whatever other keys are supplied, and keys outside the
\* four recognized ones have no effect on the output.
C6_ShallowMergeOverDefaults ==
  (pc = "done" /\ ret.kind = "return" /\ ret.shape # "None") =>
    /\ \A k \in C6_Recognized :
         ret.config[k] =
           IF k \in DOMAIN OwnProps(optionsInput)
           THEN OwnProps(optionsInput)[k]
           ELSE C6_Default(k)
    /\ ret.value = C6_Output(C6_RecognizedOnly(optionsInput))

C6_Witness ==
  /\ pc = "done" /\ ret.kind = "return" /\ ret.shape # "None"
  /\ optionsInput.t = "object"
  /\ DOMAIN optionsInput.o = {"theme", "debug"}
  /\ optionsInput.o.theme = "dark"
  /\ ret.config.theme = "dark" /\ ret.config.fontClass = "font-sans"
  /\ ret.config.enableAnimations = TRUE

(***************************************************************************)
(* SpecText: every text of at most MaxPieces pieces (list markers, bullet  *)
(* signs, heading signs, the escaped line break and its two characters),   *)
(* and raw values that are not strings.                                    *)
(***************************************************************************)
MaxPieces == 3

TextPieces ==
  {<<"1", ".", " ">>, <<"-", " ">>, <<"*", " ">>, <<"#", " ">>, <<"#">>,
   <<LF>>, <<BS, "n">>, <<BS>>, <<"n">>, <<BULLET>>}

TextRaws ==
  {Str(t) : t \in Concats(TextPieces, MaxPieces)}
  \cup {Null, Undefined, Num(0), Num(42), Bool(FALSE), Bool(TRUE), Obj(<<>>)}

InitText ==
  /\ impl \in {"part_000", "util"}
  /\ rawInput \in TextRaws
  /\ optionsInput \in {Undefined, OptionObject("dark", "-", "-", "-", "-")}
  /\ pc = "call"
  /\ ret = NotCalled
  /\ invocations = <<>>
  /\ ChatMounted

SpecText == InitText /\ [][Next]_vars

(***************************************************************************)
(* Totality, shape selection and cleaning (checked under SpecText).        *)
(***************************************************************************)
\* C2: for all inputs (any raw value and any configuration object)
\* formatMessage returns a string and never throws.
C2_AlwaysReturnsString == pc = "done" => ret.kind = "return"

\* the text contains digits followed by '.' and whitespace
C3_Numbered(t) ==
  \E i \in 1..(Len(t) - 2) : t[i] \in Digit /\ t[i + 1] = "." /\ t[i + 2] \in WS

\* the text contains the bullet pattern the file's classifier tests: the bullet
\* glyph, '*' and whitespace and, in part_000 only, '-' and whitespace
C3_Bullet(t) ==
  \/ \E i \in 1..Len(t) : t[i] = BULLET
  \/ \E i \in 1..(Len(t) - 1) :
       /\ t[i + 1] \in WS
       /\ t[i] = "*" \/ (impl = "part_000" /\ t[i] = "-")

\* the number of '#' the line starts with
C3_Hashes(line) ==
  IF \E k \in 1..Len(line) : line[k] # "#"
  THEN (CHOOSE k \in 1..Len(line) :
          line[k] # "#" /\ \A j \in 1..(k - 1) : line[j] = "#") - 1
  ELSE Len(line)

\* some line starts with one or more '#' and a space
C3_HeadingAsStated(t) ==
  \E k \in 1..Len(splitLines(t)) :
    LET line == splitLines(t)[k]
    IN C3_Hashes(line) >= 1 /\ Len(line) > C3_Hashes(line)
       /\ line[C3_Hashes(line) + 1] = " "

\* some line starts with one or more '#', a space and at least one more character
C3_HeadingWithText(t) ==
  \E k \in 1..Len(splitLines(t)) :
    LET line == splitLines(t)[k]
    IN C3_Hashes(line) >= 1 /\ Len(line) > C3_Hashes(line) + 1
       /\ line[C3_Hashes(line) + 1] = " "

C3_Chain(t, heading) ==
  IF C3_Numbered(t) THEN "NumberedList"
  ELSE IF C3_Bullet(t) THEN "BulletList"
       ELSE IF heading THEN "Heading"
            ELSE "PlainText"

C3_Formatters(shape) ==
  CASE shape = "NumberedList" -> {"simple", "boldNumbers", "general", "util"}
    [] shape = "BulletList" -> {"bullets"}
    [] shape = "Heading" -> {"markdown"}
    [] shape = "PlainText" -> {"plain"}

C3_NonEmptyText == pc = "done" /\ rawInput.t = "string" /\ rawInput.s # <<>>

C4_NoEscapedNewlineLeft ==
  (pc = "done" /\ rawInput.t = "string" /\ rawInput.s # <<>>) =>
    /\ ~includes(ret.cleanData, <<BS, "n">>)
    /\ Len(rawInput.s) - Len(ret.cleanData)
         = Cardinality({i \in 1..Len(ret.cleanData) : ret.cleanData[i] = LF})
           - Cardinality({i \in 1..Len(rawInput.s) : rawInput.s[i] = LF})

C4_Witness ==
  /\ pc = "done" /\ rawInput.t = "string"
  /\ rawInput.s = <<BS, "n", "1", ".", " ", BS, "n">>
  /\ ret.cleanData = <<LF, "1", ".", " ", LF>>
  /\ ret.shape = "NumberedList"

(***************************************************************************)
(* SpecNumbered: part_000 on every text of at most MaxLines lines, each     *)
(* line a numbered item (plain, bold, starting with a digit, two markers on *)
(* one line), a bold number with its body on the next line, or prose.       *)
(***************************************************************************)
MaxLines == 3

NumberedLines ==
  {<<"1", ".", " ", "a">>,
   <<"2", "3", ".", " ", "a">>,
   <<"1", ".", " ", "4">>,
   <<"1", ".", " ", "*", "*", "b", "*", "*">>,
   <<"1", ".", " ", "a", " ", "2", "3", ".", " ", "a">>,
   <<"*", "*", "1", ".", "*", "*", LF, "a">>,
   <<"*", "*", "2", ".", " ", "*", "*", LF, "a">>,
   <<"a">>,
   <<>>}

\* the lines of q joined by line breaks
RECURSIVE JoinLines(_)
JoinLines(q) ==
  IF Len(q) = 0 THEN <<>>
  ELSE IF Len(q) = 1 THEN q[1]
       ELSE q[1] \o <<LF>> \o JoinLines(Tail(q))

TextsOfLines(lines, n) ==
  UNION {{JoinLines(q) : q \in [1..k -> lines]} : k \in 1..n}

InitNumbered ==
  /\ impl = "part_000"
  /\ rawInput \in {Str(t) : t \in TextsOfLines(NumberedLines, MaxLines)}
  /\ optionsInput = Undefined
  /\ pc = "call"
  /\ ret = NotCalled
  /\ invocations = <<>>
  /\ ChatMounted

NextNumbered == Call

SpecNumbered == InitNumbered /\ [][NextNumbered]_vars

(***************************************************************************)
(* Order and labels of numbered items (checked under SpecNumbered).        *)
(***************************************************************************)
C7_NumberedList ==
  /\ pc = "done" /\ ret.kind = "return" /\ ret.shape = "NumberedList"
  /\ ret.variant \in {"boldNumbers", "simple", "general"}

\* where the digits of the marker of item k start in the cleaned text (1-based):
\* the bold-number variant's match starts at the two asterisks before them
C7_DigitsAt(k) ==
  ret.items[k].index + (IF ret.variant = "boldNumbers" THEN 3 ELSE 1)

\* C7: for a numbered-list input the rendered item fragments appear in the
\* output in the left-to-right order of their markers in the source text,
\* whichever variant (bold-number, simple or general) handles the input.
C7_FragmentsInMarkerOrder ==
  C7_NumberedList =>
    /\ Len(ret.fragments) = Len(ret.items)
    /\ \A k \in 1..(Len(ret.items) - 1) : C7_DigitsAt(k) < C7_DigitsAt(k + 1)
    /\ \A k \in 1..Len(ret.items) :
         /\ ret.cleanData[C7_DigitsAt(k)] \in Digit
         /\ includes(ret.fragments[k], ret.items[k].number)
    /\ includes(ret.value, joinAll(ret.fragments))

C7_Witness ==
  /\ C7_NumberedList
  /\ ret.variant = "boldNumbers"
  /\ Len(ret.items) = 2
  /\ ret.items[1].number = <<"2">> /\ ret.items[2].number = <<"1">>
  /\ ret.items[1].index < ret.items[2].index

\* the positions (1-based) where a marker starts in t: a maximal run of digits
\* followed by '.' and whitespace
C8_Markers(t) ==
  {i \in 1..Len(t) :
     /\ t[i] \in Digit
     /\ i = 1 \/ t[i - 1] \notin Digit
     /\ RunEnd(t, i - 1, Digit) + 2 <= Len(t)
     /\ t[RunEnd(t, i - 1, Digit) + 1] = "."
     /\ t[RunEnd(t, i - 1, Digit) + 2] \in WS}

\* the bold-number variant's markers: two asterisks, digits and '.'
C8_BoldMarkers(t) ==
  {i \in 3..Len(t) :
     /\ t[i] \in Digit /\ t[i - 1] = "*" /\ t[i - 2] = "*"
     /\ RunEnd(t, i - 1, Digit) + 1 <= Len(t)
     /\ t[RunEnd(t, i - 1, Digit) + 1] = "."}

\* the digits of the marker starting at position i of t
C8_DigitsOf(t, i) == SubSeq(t, i, RunEnd(t, i - 1, Digit))

\* the fragment shows the label: the digits, then a unit starting with '.'
C8_Labelled(fragment, number) ==
  \E p \in 1..(Len(fragment) - Len(number)) :
    /\ SubSeq(fragment, p, p + Len(number) - 1) = number
    /\ fragment[p + Len(number)] \in {".", ".</span> "}
    /\ p = 1 \/ fragment[p - 1] \notin Digit

\* every item starts at a marker of its own and is rendered with that
\* marker's digits
C8_LabelsVerbatim ==
  /\ Len(ret.fragments) = Len(ret.items)
  /\ \A k \in 1..Len(ret.items) :
       /\ C7_DigitsAt(k) \in
            (IF ret.variant = "boldNumbers"
             THEN C8_BoldMarkers(ret.cleanData) ELSE C8_Markers(ret.cleanData))
       /\ ret.items[k].number = C8_DigitsOf(ret.cleanData, C7_DigitsAt(k))
       /\ C8_Labelled(ret.fragments[k], ret.items[k].number)
  /\ \A j, k \in 1..Len(ret.items) : j < k => C7_DigitsAt(j) < C7_DigitsAt(k)

C14_NoItems ==
  /\ pc = "done" /\ ret.kind = "return" /\ ret.shape = "NumberedList"
  /\ ret.items = <<>>

\* C14: a numbered-list input from which no variant extracts an item is
\* rendered by the plain-text formatter: the output is the plain-text markup
\* of the whole text, not a list container without items.
C14_NoItemsGivesPlainText ==
  C14_NoItems =>
    /\ ret.variant = "plain"
    /\ ret.value = formatPlainText(ret.cleanData, ret.colors, ret.config).out

(***************************************************************************)
(* Items of the simple variant (checked under SpecNumbered).               *)
(***************************************************************************)
\* index just after the white space of the marker that starts at t[i]
C16_MarkerEnd(t, i) == RunEnd(t, RunEnd(t, i - 1, Digit) + 1, WS)

\* index of the next marker after the one at t[i], or the end of the text
C16_NextMarker(t, i) ==
  IF \E j \in C8_Markers(t) : j > i
  THEN (CHOOSE j \in C8_Markers(t) :
          j > i /\ \A k \in C8_Markers(t) : k > i => j <= k) - 1
  ELSE Len(t)

C16_Content(t, i) == trim(substring(t, C16_MarkerEnd(t, i), C16_NextMarker(t, i)))

\* the candidate at t[i] is taken: its content does not start with a digit
C16_Taken(t, i) ==
  ~(C16_MarkerEnd(t, i) < Len(t) /\ At(t, C16_MarkerEnd(t, i)) \in Digit)

\* C16: in the simple variant the items are the markers whose content does
\* not start with a digit, and the content of each is the text from its
\* marker to the next marker or the end of the text, every line of it.
C16_SimpleItemsRunToNextMarker ==
  (C7_NumberedList /\ ret.variant = "simple") =>
    /\ \A i \in C8_Markers(ret.cleanData) :
         C16_Taken(ret.cleanData, i)
           => \E k \in 1..Len(ret.items) :
                /\ ret.items[k].index = i - 1
                /\ ret.items[k].content = C16_Content(ret.cleanData, i)
    /\ \A k \in 1..Len(ret.items) :
         /\ ret.items[k].index + 1 \in C8_Markers(ret.cleanData)
         /\ C16_Taken(ret.cleanData, ret.items[k].index + 1)

(***************************************************************************)
MaxProductLines == 3

AvailableColors == <<"R", "e", "d">>

AvailableLine ==
  <<"A", "v", "a", "i", "l", "a", "b", "l", "e", " ", "i", "n", " ">>
  \o AvailableColors

ProductLines ==
  {<<"1", ".", " ", "S">>,
   <<"1", ".", " ", "*", "*", "S", "*", "*">>,
   <<"2", ".", " ", "*", "*", "T", "*", "*">>,
   AvailableLine,
   <<"S", "i", "z", "e", ":", " ", "L">>,
   <<"-", " ", "c">>,
   <<"a">>}

InitProduct ==
  /\ impl \in {"part_000", "util"}
  /\ rawInput \in {Str(t) : t \in TextsOfLines(ProductLines, MaxProductLines)}
  /\ optionsInput = Undefined
  /\ pc = "call"
  /\ ret = NotCalled
  /\ invocations = <<>>
  /\ ChatMounted

SpecProduct == InitProduct /\ [][Next]_vars

(***************************************************************************)
(* Availability lines of product items (checked under SpecProduct).        *)
(***************************************************************************)
\* the input is a numbered product listing one of whose items, after its
\* first line, holds the line 'Available in Red'
C9_AvailableInsideItem ==
  /\ pc = "done" /\ ret.kind = "return" /\ ret.shape = "NumberedList"
  /\ isProductLike(ret.cleanData)
  /\ \E j \in 2..Len(splitLines(ret.cleanData)) :
       /\ splitLines(ret.cleanData)[j] = AvailableLine
       /\ C8_Markers(splitLines(ret.cleanData)[1]) = {1}

\* C9: for a product-listing numbered input in which some item contains a
\* line 'Available in X', the rendered markup of an item contains the text X,
\* whichever numbered-list variant segments the input.
C9_AvailableTextRendered ==
  C9_AvailableInsideItem =>
    \E k \in 1..Len(ret.fragments) : includes(ret.fragments[k], AvailableColors)

(***************************************************************************)
(* SpecBullet: both files on every text of at most MaxBulletLines lines,   *)
(* each line a bullet sign ('-', '*' or the glyph) and its text.           *)
(***************************************************************************)
MaxBulletLines == 3

BulletedLines ==
  {<<"-", " ", "a">>,
   <<"-", " ", "b", " ", "c">>,
   <<"*", " ", "d">>,
   <<BULLET, " ", "e">>,
   <<BULLET, "f">>}

InitBullet ==
  /\ impl \in {"part_000", "util"}
  /\ rawInput \in {Str(t) : t \in TextsOfLines(BulletedLines, MaxBulletLines)}
  /\ optionsInput = Undefined
  /\ pc = "call"
  /\ ret = NotCalled
  /\ invocations = <<>>
  /\ ChatMounted

SpecBullet == InitBullet /\ [][Next]_vars

(***************************************************************************)
(* Bullet-only inputs (checked under SpecBullet).                          *)
(***************************************************************************)
\* the text of a bullet line: what follows the sign and the spaces after it
C10_TextOf(line) == substringFrom(line, RunEnd(line, 1, {" "}))

C10_ListOpen(u) ==
  u = "<ul class=\"list-disc pl-5 my-3 space-y-2\" style=\"color: "

C10_Count(out, u) == Cardinality({p \in 1..Len(out) : out[p] = u})

\* the positions of the list-item openings in the output, in a sequence
RECURSIVE C10_ItemStarts(_, _)
C10_ItemStarts(out, p) ==
  IF p > Len(out) THEN <<>>
  ELSE (IF out[p] = "<li class=\"pl-1\">" THEN <<p>> ELSE <<>>)
       \o C10_ItemStarts(out, p + 1)

C10_Holds(out, p, text) ==
  /\ p + Len(text) + 1 <= Len(out)
  /\ SubSeq(out, p + 1, p + Len(text)) = text
  /\ out[p + Len(text) + 1] = "</li>"

\* every line of the input is a sign ('-', '*' or the glyph), a space and text
C10_BulletOnly ==
  /\ pc = "done" /\ ret.kind = "return"
  /\ \A i \in 1..Len(splitLines(ret.cleanData)) :
       LET line == splitLines(ret.cleanData)[i]
       IN Len(line) >= 3 /\ line[1] \in {"-", "*", BULLET} /\ line[2] = " "

\* C10: a bullet-only input of n consecutive lines, each starting with '- ',
\* '* ' or the bullet glyph and a space, produces exactly one unordered list
\* with exactly n list items, the i-th holding the text of the i-th line.
C10_OneListOfAllLines ==
  C10_BulletOnly =>
    /\ Cardinality({p \in 1..Len(ret.value) : C10_ListOpen(ret.value[p])}) = 1
    /\ C10_Count(ret.value, "</ul>") = 1
    /\ Len(C10_ItemStarts(ret.value, 1)) = Len(splitLines(ret.cleanData))
    /\ \A i \in 1..Len(C10_ItemStarts(ret.value, 1)) :
         i <= Len(splitLines(ret.cleanData))
           => C10_Holds(ret.value, C10_ItemStarts(ret.value, 1)[i],
                        C10_TextOf(splitLines(ret.cleanData)[i]))

(***************************************************************************)
(* SpecHeading: both files on every text of at most MaxHeadingLines lines: *)
(* headings of level 1 to 4, body lines (one of them starting with the     *)
(* characters of a tag) and blank lines.                                   *)
(***************************************************************************)
MaxHeadingLines == 3

HeadingLines ==
  {<<"#", " ", "T">>,
   <<"#", "#", " ", "T", "i">>,
   <<"#", "#", "#", " ", "U">>,
   <<"#", "#", "#", "#", " ", "V">>,
   <<"b", " ", "c">>,
   <<"<", "h", "r", ">">>,
   <<>>}

InitHeading ==
  /\ impl \in {"part_000", "util"}
  /\ rawInput \in {Str(t) : t \in TextsOfLines(HeadingLines, MaxHeadingLines)}
  /\ optionsInput = Undefined
  /\ pc = "call"
  /\ ret = NotCalled
  /\ invocations = <<>>
  /\ ChatMounted

SpecHeading == InitHeading /\ [][Next]_vars

(***************************************************************************)
(* Heading inputs (checked under SpecHeading).                             *)
(***************************************************************************)
\* the level of a heading line '# T', '## T', '### T' with T not empty, else 0
C11_Level(line) ==
  IF /\ C3_Hashes(line) \in 1..3
     /\ Len(line) > C3_Hashes(line) + 1
     /\ line[C3_Hashes(line) + 1] = " "
  THEN C3_Hashes(line) ELSE 0

C11_Text(line) == SubSeq(line, C3_Hashes(line) + 2, Len(line))

C11_Open(level) ==
  CASE level = 1 -> "<h1 class=\"text-2xl font-bold mb-4 mt-6\" style=\"color: "
    [] level = 2 -> "<h2 class=\"text-xl font-bold mb-3 mt-5\" style=\"color: "
    [] level = 3 -> "<h3 class=\"text-lg font-bold mb-2 mt-4\" style=\"color: "

C11_Close(level) ==
  CASE level = 1 -> "</h1>" [] level = 2 -> "</h2>" [] level = 3 -> "</h3>"

C11_HeadingFragment(level, text) ==
  <<C11_Open(level), ret.colors.accent, ";\">">> \o text \o <<C11_Close(level)>>

C11_ParagraphFragment(para) ==
  <<"<p class=\"mb-4 leading-relaxed\" style=\"color: ", ret.colors.foreground,
    ";\">">> \o replaceNewlinesWithBr(para) \o <<"</p>">>

C11_HeadingInput == pc = "done" /\ ret.kind = "return" /\ ret.shape = "Heading"

\* a paragraph none of whose lines is a heading of level 1 to 3
C11_IsBody(para) ==
  /\ para # <<>>
  /\ \A i \in 1..Len(splitLines(para)) : C11_Level(splitLines(para)[i]) = 0

\* C11: a heading-shaped input renders each line '# T', '## T', '### T' as a
\* heading of level 1, 2, 3 containing T and as no heading of another level,
\* and a following blank-line-separated body paragraph as a paragraph
\* fragment after the heading.
C11_HeadingsAndBody ==
  C11_HeadingInput =>
    /\ \A i \in 1..Len(splitLines(ret.cleanData)) :
         LET line == splitLines(ret.cleanData)[i]
         IN C11_Level(line) > 0
              => includes(ret.value,
                          C11_HeadingFragment(C11_Level(line), C11_Text(line)))
    /\ \A level \in 1..3 :
         C10_Count(ret.value, C11_Open(level))
           = Cardinality({i \in 1..Len(splitLines(ret.cleanData)) :
                            C11_Level(splitLines(ret.cleanData)[i]) = level})
    /\ \A j \in 2..Len(splitParagraphs(ret.cleanData)) :
         LET para == splitParagraphs(ret.cleanData)[j]
             before == splitParagraphs(ret.cleanData)[j - 1]
         IN (C11_IsBody(para) /\ ~C11_IsBody(before) /\ before # <<>>)
              => /\ includes(ret.value, C11_ParagraphFragment(para))
                 /\ \E level \in 1..3 :
                      /\ hasUnit(ret.value, C11_Open(level))
                      /\ indexOf(ret.value, <<C11_Open(level)>>)
                           < indexOf(ret.value, C11_ParagraphFragment(para))

(***************************************************************************)
(* SpecRepeated: the importing module calls formatMessage up to MaxCalls   *)
(* times, each time on a text and an option object of its choice.          *)
(***************************************************************************)
MaxCalls == 3

RepeatedRaws ==
  {Str(<<"h", "i">>),
   Str(<<"#", " ", "T">>),
   Str(<<"-", " ", "a">>),
   Str(<<"1", ".", " ", "a">>),
   Str(<<"*", "*", "1", ".", "*", "*", LF, "a", LF, "*", "*", "2", ".", "*", "*", LF, "b">>)}

RepeatedOptions == {Undefined, OptionObject("dark", "#f00", "-", "-", "-")}

InitRepeated ==
  /\ impl \in {"part_000", "util"}
  /\ rawInput \in RepeatedRaws
  /\ optionsInput \in RepeatedOptions
  /\ pc = "call"
  /\ ret = NotCalled
  /\ invocations = <<>>
  /\ ChatMounted

CallAgain ==
  /\ pc = "done"
  /\ Len(invocations) < MaxCalls
  /\ rawInput' \in RepeatedRaws
  /\ optionsInput' \in RepeatedOptions
  /\ pc' = "call"
  /\ UNCHANGED <<impl, ret, invocations, chatVars>>

NextRepeated == Call \/ CallUtil \/ CallAgain

SpecRepeated == InitRepeated /\ [][NextRepeated]_vars

(***************************************************************************)
(* Purity (checked under SpecRepeated).                                    *)
(***************************************************************************)
C12_SameInput(i, j) ==
  /\ invocations[i].rawData = invocations[j].rawData
  /\ invocations[i].options = invocations[j].options

MaxRoundTripPieces == 3

\* the characters of the template chunks and configuration strings of the
\* plain-text, bullet and markdown formatters and of the container
TemplateCharacters ==
  ("<br>" :>
     <<"<", "b", "r", ">">>)
  @@
  ("\n    <div class=\"message-container " :>
     <<LF, " ", " ", " ", " ", "<", "d", "i", "v", " ", "c", "l", "a", "s",
       "s", "=", "\"", "m", "e", "s", "s", "a", "g", "e", "-", "c", "o",
       "n", "t", "a", "i", "n", "e", "r", " ">>)
  @@
  ("animate-fade-in" :>
     <<"a", "n", "i", "m", "a", "t", "e", "-", "f", "a", "d", "e", "-",
       "i", "n">>)
  @@
  ("\" style=\"" :>
     <<"\"", " ", "s", "t", "y", "l", "e", "=", "\"">>)
  @@
  ("\n    background-color: " :>
     <<LF, " ", " ", " ", " ", "b", "a", "c", "k", "g", "r", "o", "u", "n",
       "d", "-", "c", "o", "l", "o", "r", ":", " ">>)
  @@
  ("; \n    color: " :>
     <<";", " ", LF, " ", " ", " ", " ", "c", "o", "l", "o", "r", ":",
       " ">>)
  @@
  (";\n  " :>
     <<";", LF, " ", " ">>)
  @@
  ("\">\n      " :>
     <<"\"", ">", LF, " ", " ", " ", " ", " ", " ">>)
  @@
  ("\n    </div>\n  " :>
     <<LF, " ", " ", " ", " ", "<", "/", "d", "i", "v", ">", LF, " ", " ">>)
  @@
  ("<p class=\"mb-4 leading-relaxed\">" :>
     <<"<", "p", " ", "c", "l", "a", "s", "s", "=", "\"", "m", "b", "-",
       "4", " ", "l", "e", "a", "d", "i", "n", "g", "-", "r", "e", "l",
       "a", "x", "e", "d", "\"", ">">>)
  @@
  ("</p>" :>
     <<"<", "/", "p", ">">>)
  @@
  ("<ul class=\"list-disc pl-5 my-3 space-y-2\" style=\"color: " :>
     <<"<", "u", "l", " ", "c", "l", "a", "s", "s", "=", "\"", "l", "i",
       "s", "t", "-", "d", "i", "s", "c", " ", "p", "l", "-", "5", " ",
       "m", "y", "-", "3", " ", "s", "p", "a", "c", "e", "-", "y", "-",
       "2", "\"", " ", "s", "t", "y", "l", "e", "=", "\"", "c", "o", "l",
       "o", "r", ":", " ">>)
  @@
  (";\">" :>
     <<";", "\"", ">">>)
  @@
  ("<li class=\"pl-1\">" :>
     <<"<", "l", "i", " ", "c", "l", "a", "s", "s", "=", "\"", "p", "l",
       "-", "1", "\"", ">">>)
  @@
  ("</li>" :>
     <<"<", "/", "l", "i", ">">>)
  @@
  ("</ul>" :>
     <<"<", "/", "u", "l", ">">>)
  @@
  ("<p class=\"mb-3\">" :>
     <<"<", "p", " ", "c", "l", "a", "s", "s", "=", "\"", "m", "b", "-",
       "3", "\"", ">">>)
  @@
  ("<p class=\"mb-4 leading-relaxed\" style=\"color: " :>
     <<"<", "p", " ", "c", "l", "a", "s", "s", "=", "\"", "m", "b", "-",
       "4", " ", "l", "e", "a", "d", "i", "n", "g", "-", "r", "e", "l",
       "a", "x", "e", "d", "\"", " ", "s", "t", "y", "l", "e", "=", "\"",
       "c", "o", "l", "o", "r", ":", " ">>)
  @@
  ("<h1 class=\"text-2xl font-bold mb-4 mt-6\" style=\"color: " :>
     <<"<", "h", "1", " ", "c", "l", "a", "s", "s", "=", "\"", "t", "e",
       "x", "t", "-", "2", "x", "l", " ", "f", "o", "n", "t", "-", "b",
       "o", "l", "d", " ", "m", "b", "-", "4", " ", "m", "t", "-", "6",
       "\"", " ", "s", "t", "y", "l", "e", "=", "\"", "c", "o", "l", "o",
       "r", ":", " ">>)
  @@
  ("<h2 class=\"text-xl font-bold mb-3 mt-5\" style=\"color: " :>
     <<"<", "h", "2", " ", "c", "l", "a", "s", "s", "=", "\"", "t", "e",
       "x", "t", "-", "x", "l", " ", "f", "o", "n", "t", "-", "b", "o",
       "l", "d", " ", "m", "b", "-", "3", " ", "m", "t", "-", "5", "\"",
       " ", "s", "t", "y", "l", "e", "=", "\"", "c", "o", "l", "o", "r",
       ":", " ">>)
  @@
  ("<h3 class=\"text-lg font-bold mb-2 mt-4\" style=\"color: " :>
     <<"<", "h", "3", " ", "c", "l", "a", "s", "s", "=", "\"", "t", "e",
       "x", "t", "-", "l", "g", " ", "f", "o", "n", "t", "-", "b", "o",
       "l", "d", " ", "m", "b", "-", "2", " ", "m", "t", "-", "4", "\"",
       " ", "s", "t", "y", "l", "e", "=", "\"", "c", "o", "l", "o", "r",
       ":", " ">>)
  @@
  ("</h1>" :>
     <<"<", "/", "h", "1", ">">>)
  @@
  ("</h2>" :>
     <<"<", "/", "h", "2", ">">>)
  @@
  ("</h3>" :>
     <<"<", "/", "h", "3", ">">>)
  @@
  ("<strong>" :>
     <<"<", "s", "t", "r", "o", "n", "g", ">">>)
  @@
  ("</strong>" :>
     <<"<", "/", "s", "t", "r", "o", "n", "g", ">">>)
  @@
  ("<em>" :>
     <<"<", "e", "m", ">">>)
  @@
  ("</em>" :>
     <<"<", "/", "e", "m", ">">>)
  @@
  ("<code class=\"px-1 py-0.5 rounded\" style=\"background-color: " :>
     <<"<", "c", "o", "d", "e", " ", "c", "l", "a", "s", "s", "=", "\"",
       "p", "x", "-", "1", " ", "p", "y", "-", "0", ".", "5", " ", "r",
       "o", "u", "n", "d", "e", "d", "\"", " ", "s", "t", "y", "l", "e",
       "=", "\"", "b", "a", "c", "k", "g", "r", "o", "u", "n", "d", "-",
       "c", "o", "l", "o", "r", ":", " ">>)
  @@
  ("</code>" :>
     <<"<", "/", "c", "o", "d", "e", ">">>)
  @@
  ("fontClass" :>
     <<"f", "o", "n", "t", "C", "l", "a", "s", "s">>)
  @@
  ("#000" :>
     <<"#", "0", "0", "0">>)
  @@
  ("font-sans" :>
     <<"f", "o", "n", "t", "-", "s", "a", "n", "s">>)
  @@
  ("#3b82f6" :>
     <<"#", "3", "b", "8", "2", "f", "6">>)
  @@
  ("#1f2937" :>
     <<"#", "1", "f", "2", "9", "3", "7">>)
  @@
  ("#f9fafb" :>
     <<"#", "f", "9", "f", "a", "f", "b">>)
  @@
  ("#374151" :>
     <<"#", "3", "7", "4", "1", "5", "1">>)
  @@
  ("#9ca3af" :>
     <<"#", "9", "c", "a", "3", "a", "f">>)
  @@
  ("#2d3748" :>
     <<"#", "2", "d", "3", "7", "4", "8">>)
  @@
  ("#ffffff" :>
     <<"#", "f", "f", "f", "f", "f", "f">>)
  @@
  ("#111827" :>
     <<"#", "1", "1", "1", "8", "2", "7">>)
  @@
  ("#e5e7eb" :>
     <<"#", "e", "5", "e", "7", "e", "b">>)
  @@
  ("#6b7280" :>
     <<"#", "6", "b", "7", "2", "8", "0">>)
  @@
  ("#f3f4f6" :>
     <<"#", "f", "3", "f", "4", "f", "6">>)

\* the string a sequence of output units is
RECURSIVE toCharacters(_)
toCharacters(out) ==
  IF out = <<>> THEN <<>>
  ELSE (IF Head(out) \in DOMAIN TemplateCharacters
        THEN TemplateCharacters[Head(out)] ELSE <<Head(out)>>)
       \o toCharacters(Tail(out))

RoundTripPieces ==
  {<<"a">>, <<" ">>, <<LF>>, <<"-">>, <<"*">>, <<"#">>, <<".">>}

RoundTripRaws ==
  {Str(t) : t \in Concats(RoundTripPieces, MaxRoundTripPieces)}
  \cup {Num(42), Bool(TRUE)}

InitRoundTrip ==
  /\ impl \in {"part_000", "util"}
  /\ rawInput \in RoundTripRaws
  /\ optionsInput = Undefined
  /\ pc = "call"
  /\ ret = NotCalled
  /\ invocations = <<>>
  /\ ChatMounted

\* formatMessage(formatMessage(x)): the outer call, made once the inner one
\* has returned
CallOnOutput ==
  /\ pc = "done"
  /\ Len(invocations) = 1
  /\ ret.kind = "return"
  /\ rawInput' = Str(toCharacters(ret.value))
  /\ pc' = "call"
  /\ UNCHANGED <<impl, optionsInput, ret, invocations, chatVars>>

NextRoundTrip == Call \/ CallUtil \/ CallOnOutput

SpecRoundTrip == InitRoundTrip /\ [][NextRoundTrip]_vars

(***************************************************************************)
(* Round trip (checked under SpecRoundTrip).                               *)
(***************************************************************************)
\* x is a text with no list marker and no heading marker
C13_NoMarker(x) ==
  /\ x.t = "string"
  /\ ~hasNumberedList(clean(x.s))
  /\ ~hasBulletPoints(clean(x.s))
  /\ ~hasHeadings(clean(x.s))

C13_Returned(i) ==
  i \in 1..Len(invocations) => invocations[i].result.kind = "return"

C13_SecondPassPlain ==
  (Len(invocations) = 2 /\ C13_NoMarker(invocations[1].rawData)
     /\ invocations[1].rawData.s # <<>>)
    => invocations[2].result.shape = "PlainText"

\* C13: for every input x, formatMessage(formatMessage(x)) does not crash and
\* returns a string: both the inner and the outer invocation return; and
\* when x has no list or heading marker, the outer invocation classifies the
\* markup it is given as plain text.
C13_RoundTripStable ==
  /\ C13_Returned(1)
  /\ C13_Returned(2)
  /\ C13_SecondPassPlain

(***************************************************************************)
(* SpecVariant: part_000 on every text of at most MaxVariantLines lines:   *)
(* bold markers on a line of their own, body lines that start with a       *)
(* letter, a digit or a bold span, a blank line, markers with and without  *)
(* text after them, two markers on one line.                               *)
(***************************************************************************)
MaxVariantLines == 3

VariantLines ==
  {<<"*", "*", "1", ".", "*", "*">>,
   <<"a">>,
   <<"4", " ", "b">>,
   <<"*", "*", "b", "*", "*">>,
   <<"2", ".", " ", "a">>,
   <<"3", ".", " ">>,
   <<"5", ".", " ", "c", " ", "6", ".", " ", "*", "*", "d", "*", "*">>,
   <<" ">>}

InitVariant ==
  /\ impl = "part_000"
  /\ rawInput \in {Str(t) : t \in TextsOfLines(VariantLines, MaxVariantLines)}
  /\ optionsInput = Undefined
  /\ pc = "call"
  /\ ret = NotCalled
  /\ invocations = <<>>
  /\ ChatMounted

SpecVariant == InitVariant /\ [][NextNumbered]_vars

(***************************************************************************)
(* Choice of the numbered-list variant (checked under SpecVariant).        *)
(***************************************************************************)
\* index just after a '**N.**' marker that starts at i, or -1
C15_BoldMarkerEnd(s, i) ==
  IF \E d \in (i + 3)..Len(s) :
       /\ OccursAt(s, i, <<"*", "*">>) /\ OccursAt(s, d, <<".", "*", "*">>)
       /\ \A k \in (i + 2)..(d - 1) : At(s, k) \in Digit
  THEN 3 + CHOOSE d \in (i + 3)..Len(s) :
             /\ OccursAt(s, d, <<".", "*", "*">>)
             /\ \A k \in (i + 2)..(d - 1) : At(s, k) \in Digit
  ELSE -1

\* after index e: white space with a line break in it, then a character that
\* is not in Excluded
C15_BodyLineAfter(s, e, Excluded) ==
  \E m \in (e + 1)..(Len(s) - 1) :
    /\ \A k \in e..(m - 1) : At(s, k) \in WS
    /\ \E n \in e..(m - 1) : At(s, n) = LF
    /\ At(s, m) \notin Excluded

C15_BoldMarkerWithBody(s, Excluded) ==
  \E i \in 0..(Len(s) - 1) :
    /\ C15_BoldMarkerEnd(s, i) >= 0
    /\ C15_BodyLineAfter(s, C15_BoldMarkerEnd(s, i), Excluded)

\* an 'N. ' occurrence
C15_Marker(s, i) ==
  At(s, i) \in Digit /\ OccursAt(s, i + 1, <<".">>)
    /\ i + 2 < Len(s) /\ At(s, i + 2) \in WS

\* an 'N. ' occurrence with a character other than a line break after its
\* white space (or after a part of it)
C15_MarkerWithText(s, i) ==
  /\ C15_Marker(s, i)
  /\ \E m \in (i + 3)..RunEnd(s, i + 2, WS) : m < Len(s) /\ At(s, m) # LF

C15_NoBold(s) == ~includes(s, <<"*", "*">>)

C15_Chosen(bold, simple) ==
  ret.variant = IF bold THEN "boldNumbers" ELSE IF simple THEN "simple" ELSE "general"

\* C15 as stated: the bold variant whenever a '**N.**' marker is followed by a
\* line break and a body line, otherwise the simple variant exactly when the
\* text has no '**' and an 'N. ' occurrence, otherwise the general variant.
C15_VariantOrderAsStated ==
  (pc = "done" /\ ret.shape = "NumberedList") =>
    C15_Chosen(C15_BoldMarkerWithBody(ret.cleanData, WS),
               /\ C15_NoBold(ret.cleanData)
               /\ \E i \in 0..(Len(ret.cleanData) - 1) : C15_Marker(ret.cleanData, i))

\* C15 (amended): the bold variant whenever a '**N.**' marker is followed by
\* white space with a line break in it and then a character that is neither a
\* digit, '*' nor a line break; otherwise the simple variant exactly when the
\* text has no '**' and an 'N. ' occurrence whose white space is followed by
\* a character other than a line break; otherwise the general variant.
C15_VariantOrder ==
  (pc = "done" /\ ret.shape = "NumberedList") =>
    C15_Chosen(C15_BoldMarkerWithBody(ret.cleanData, Digit \cup {"*", LF}),
               /\ C15_NoBold(ret.cleanData)
               /\ \E i \in 0..(Len(ret.cleanData) - 1) :
                    C15_MarkerWithText(ret.cleanData, i))

\* each of the three variants is chosen for some text; one of them has a bold
\* marker whose body line starts with a digit
C15_Witness ==
  /\ pc = "done" /\ ret.shape = "NumberedList"
  /\ ret.variant = "general"
  /\ C15_BoldMarkerWithBody(ret.cleanData, WS)
  /\ ~C15_BoldMarkerWithBody(ret.cleanData, Digit \cup {"*", LF})

(***************************************************************************)
(* Items of the general variant (checked under SpecVariant).               *)
(***************************************************************************)
C17_General ==
  pc = "done" /\ ret.kind = "return" /\ ret.shape = "NumberedList"
    /\ ret.variant = "general"

\* the k-th marker of t, as the position of its first digit
C17_MarkerNo(t, k) ==
  CHOOSE i \in C8_Markers(t) :
    Cardinality({j \in C8_Markers(t) : j <= i}) = k

\* a double newline starts at index n: a line break, white space or none, and
\* another line break
C17_DoubleNewlineAt(t, n) ==
  /\ n < Len(t) /\ At(t, n) = LF
  /\ \E m \in (n + 1)..(Len(t) - 1) :
       At(t, m) = LF /\ \A j \in (n + 1)..(m - 1) : At(t, j) \in WS

\* where the content of the item at marker t[i] ends
C17_ContentEnd(t, i) ==
  IF \E j \in C8_Markers(t) : j > i THEN C16_NextMarker(t, i)
  ELSE IF \E n \in C16_MarkerEnd(t, i)..Len(t) : C17_DoubleNewlineAt(t, n)
       THEN CHOOSE n \in C16_MarkerEnd(t, i)..Len(t) :
              /\ C17_DoubleNewlineAt(t, n)
              /\ \A j \in C16_MarkerEnd(t, i)..(n - 1) : ~C17_DoubleNewlineAt(t, j)
       ELSE Len(t)

C17_Content(t, i) == trim(substring(t, C16_MarkerEnd(t, i), C17_ContentEnd(t, i)))

\* C17: in the general variant there is one item per marker; the content of
\* an item that is not the last is the trimmed text between the end of its
\* marker and the start of the next marker, and the content of the last item
\* is the trimmed text from the end of its marker to the first double newline
\* after it, or to the end of the text when there is none.
C17_GeneralItems ==
  C17_General =>
    /\ Len(ret.items) = Cardinality(C8_Markers(ret.cleanData))
    /\ \A k \in 1..Len(ret.items) :
         /\ ret.items[k].index + 1 = C17_MarkerNo(ret.cleanData, k)
         /\ ret.items[k].number
              = C8_DigitsOf(ret.cleanData, C17_MarkerNo(ret.cleanData, k))
         /\ ret.items[k].content
              = C17_Content(ret.cleanData, C17_MarkerNo(ret.cleanData, k))

\* two items, and text after the last one that a double newline keeps out of it
C17_Witness ==
  /\ C17_General
  /\ Len(ret.items) = 2
  /\ ret.items[1].content # <<>>
  /\ C17_ContentEnd(ret.cleanData, C17_MarkerNo(ret.cleanData, 2)) < Len(ret.cleanData)
  /\ includes(ret.value, ret.items[2].content)

(***************************************************************************)
(* Intro and conclusion of the general variant (checked under SpecVariant).*)
(***************************************************************************)
C18_FirstMarker(t) == C17_MarkerNo(t, 1)

C18_LastMarker(t) == C17_MarkerNo(t, Cardinality(C8_Markers(t)))

\* the text before the first marker, trimmed
C18_Intro(t) == trim(substring(t, 0, C18_FirstMarker(t) - 1))

\* the text after the content of the last item, trimmed (which strips the
\* double newline it starts with)
C18_Conclusion(t) == trim(substringFrom(t, C17_ContentEnd(t, C18_LastMarker(t))))

C18_IntroCaptured == C17_General => ret.introText = C18_Intro(ret.cleanData)

C18_ConclusionCaptured ==
  C17_General => ret.conclusionText = C18_Conclusion(ret.cleanData)

\* C18: in the general variant the text before the first marker, whatever the
\* marker's number, is the trimmed intro, and the text after the last item's
\* content is the conclusion, so that intro, item contents (C17) and
\* conclusion are all the text outside the markers.
C18_IntroAndConclusion == C18_IntroCaptured /\ C18_ConclusionCaptured

(***************************************************************************)
(* Text around the items, in every variant (checked under SpecNumbered).   *)
(***************************************************************************)
\* index just after the bold marker '**N.**' or '**N. **' that starts at i
C19_BoldMarkerEnd(t, i) ==
  IF At(t, RunEnd(t, i + 2, Digit) + 1) = "*"
  THEN RunEnd(t, i + 2, Digit) + 3
  ELSE RunEnd(t, i + 2, Digit) + 4

\* index of the first character of the item's content
C19_ContentStart(t, item) ==
  IF ret.variant = "boldNumbers"
  THEN RunEnd(t, C19_BoldMarkerEnd(t, item.index), WS)
  ELSE C16_MarkerEnd(t, item.index + 1)

\* index just after the item: the end of the line of its content, or in the
\* general variant the end of its content (C17)
C19_ItemEnd(t, item) ==
  IF ret.variant = "general" THEN C17_ContentEnd(t, item.index + 1)
  ELSE IF \E n \in C19_ContentStart(t, item)..(Len(t) - 1) : At(t, n) = LF
       THEN CHOOSE n \in C19_ContentStart(t, item)..(Len(t) - 1) :
              At(t, n) = LF /\ \A k \in C19_ContentStart(t, item)..(n - 1) : At(t, k) # LF
       ELSE Len(t)

C19_TextAfter(t) == trim(substringFrom(t, C19_ItemEnd(t, ret.items[Len(ret.items)])))

C19_TextBefore(t) == trim(substring(t, 0, ret.items[1].index))

C19_Listed == C7_NumberedList /\ ret.items # <<>>

C19_ConclusionIsTextAfter ==
  C19_Listed => ret.conclusionText = C19_TextAfter(ret.cleanData)

C19_IntroIsTextBefore ==
  C19_Listed => ret.introText = C19_TextBefore(ret.cleanData)

\* intro before the first item's fragment, conclusion after the last one's
C19_RenderedAround ==
  C19_Listed =>
    /\ ret.introText # <<>>
         => /\ includes(ret.value, replaceNewlinesWithBr(ret.introText) \o <<"</div>">>)
            /\ indexOf(ret.value, replaceNewlinesWithBr(ret.introText) \o <<"</div>">>)
                 < indexOf(ret.value, ret.fragments[1])
    /\ ret.conclusionText # <<>>
         => lastIndexOf(ret.value,
                        replaceNewlinesWithBr(ret.conclusionText) \o <<"</div>">>)
              > indexOf(ret.value, ret.fragments[Len(ret.fragments)])

\* C19: in each of the three variants the text after the last item is the
\* conclusion (so the conclusion is empty only when nothing follows the last
\* item) and is rendered after the items, and the text before the first item
\* is the intro and is rendered before them.
C19_TextAroundItems ==
  C19_ConclusionIsTextAfter /\ C19_IntroIsTextBefore /\ C19_RenderedAround

(***************************************************************************)
(* Renderer of the items of a numbered list (checked under SpecProduct).   *)
(***************************************************************************)
C20_Listed ==
  pc = "done" /\ ret.kind = "return" /\ ret.shape = "NumberedList"
    /\ ret.items # <<>>

\* the item as the renderer chosen by the product-listing flag renders it
C20_RenderedByFlag(item) ==
  IF impl = "util"
  THEN IF isProductLike(ret.cleanData)
       THEN formatProductItem_util(item, ret.colors, ret.config)
       ELSE formatGenericListItem_util(item, ret.colors, ret.config)
  ELSE IF isProductLike(ret.cleanData)
       THEN formatProductItem(item, ret.colors, ret.config)
       ELSE formatGenericListItem(item, ret.colors, ret.config)

\* C20: every item of a numbered list, whichever variant segmented it, is
\* rendered by the product-item renderer when the cleaned text contains one of
\* the product keywords and by the generic-list-item renderer otherwise.
C20_ItemsRenderedByFlag ==
  C20_Listed =>
    /\ Len(ret.fragments) = Len(ret.items)
    /\ \A k \in 1..Len(ret.items) :
         ret.fragments[k] = C20_RenderedByFlag(ret.items[k])

(***************************************************************************)
(* SpecBulletScan: both files on every text of at most MaxScanLines lines, *)
(* each a bullet line, a line without bullet sign, a line that has the     *)
(* sign but no white space or no text after it, or a blank line (two line  *)
(* breaks in a row end the paragraph).                                     *)
(***************************************************************************)
MaxScanLines == 3

ScanLines ==
  {<<"-", " ", "a">>,
   <<"*", " ", " ", "b">>,
   <<BULLET, " ", "c">>,
   <<"d", " ", "-", " ", "e">>,
   <<"-", "f">>,
   <<"-", " ">>,
   <<>>}

InitBulletScan ==
  /\ impl \in {"part_000", "util"}
  /\ rawInput \in {Str(t) : t \in TextsOfLines(ScanLines, MaxScanLines)}
  /\ optionsInput = Undefined
  /\ pc = "call"
  /\ ret = NotCalled
  /\ invocations = <<>>
  /\ ChatMounted

SpecBulletScan == InitBulletScan /\ [][Next]_vars

(***************************************************************************)
(* The line scan of a bullet paragraph (checked under SpecBulletScan).     *)
(***************************************************************************)
C21_Bullets ==
  pc = "done" /\ ret.kind = "return" /\ ret.variant = "bullets"

\* a list line of the scan: the sign, white space and at least one character
C21_IsListLine(line) == bulletMatch(line).found

\* what line i of a bullet paragraph becomes, told from the line and its two
\* neighbours alone: a list line opens the list when no list line precedes it
\* and closes it when no list line follows it; any other line is a paragraph
C21_LineFragment(lines, i, colors) ==
  IF C21_IsListLine(lines[i])
  THEN (IF i = 1 \/ ~C21_IsListLine(lines[i - 1]) THEN ulOpen(colors) ELSE <<>>)
       \o <<"<li class=\"pl-1\">">> \o bulletMatch(lines[i]).text \o <<"</li>">>
       \o (IF i = Len(lines) \/ ~C21_IsListLine(lines[i + 1])
           THEN <<"</ul>">> ELSE <<>>)
  ELSE <<"<p class=\"mb-3\">">> \o lines[i] \o <<"</p>">>

C21_Paragraph(para, colors) ==
  IF hasBulletLine(para)
  THEN joinAll([i \in 1..Len(splitLines(para)) |->
                  C21_LineFragment(splitLines(para), i, colors)])
  ELSE <<"<p class=\"mb-4 leading-relaxed\" style=\"color: ">>
       \o Interp(colors.foreground) \o <<";\">">> \o para \o <<"</p>">>

C21_Expected(text, colors, config) ==
  wrapInContainer(
    joinAll([k \in 1..Len(splitParagraphs(text)) |->
               C21_Paragraph(splitParagraphs(text)[k], colors)]),
    colors, config)

C21_IsOpen(u) ==
  u = "<ul class=\"list-disc pl-5 my-3 space-y-2\" style=\"color: "

\* the number of lists open after the first p units of the output
C21_Depth(out, p) ==
  Cardinality({q \in 1..p : C21_IsOpen(out[q])})
  - Cardinality({q \in 1..p : out[q] = "</ul>"})

\* the list tags are balanced, lists do not nest, and each opening tag is
\* directly followed by a list item
C21_Balanced(out) ==
  /\ \A p \in 1..Len(out) : C21_Depth(out, p) \in {0, 1}
  /\ C21_Depth(out, Len(out)) = 0
  /\ \A p \in 1..Len(out) :
       C21_IsOpen(out[p]) =>
         p + 3 <= Len(out) /\ out[p + 3] = "<li class=\"pl-1\">"
  /\ \A p \in 1..Len(out) :
       out[p] \in {"<li class=\"pl-1\">", "</li>"} => C21_Depth(out, p) = 1
  /\ \A p \in 1..Len(out) :
       out[p] = "<p class=\"mb-3\">" => C21_Depth(out, p) = 0

\* C21: in the line scan of a bullet paragraph the list tags are balanced: a
\* list is opened only directly before a list item, each maximal run of
\* contiguous bullet lines is exactly one unordered list, a non-bullet line
\* closes the open list and is a paragraph of its own, bullets after it start
\* a new list, and every list is closed at the end of its paragraph.
C21_ListTagsBalanced ==
  C21_Bullets =>
    /\ ret.value = C21_Expected(ret.cleanData, ret.colors, ret.config)
    /\ C21_Balanced(ret.value)

\* a paragraph with a list line, a line that is none, and a list line again
C21_Witness ==
  /\ C21_Bullets
  /\ Len(splitLines(ret.cleanData)) = 3
  /\ C21_IsListLine(splitLines(ret.cleanData)[1])
  /\ splitLines(ret.cleanData)[2] # <<>>
  /\ ~C21_IsListLine(splitLines(ret.cleanData)[2])
  /\ C21_IsListLine(splitLines(ret.cleanData)[3])
  /\ Cardinality({p \in 1..Len(ret.value) : C21_IsOpen(ret.value[p])}) = 2

(***************************************************************************)
(* SpecInline: both files on a heading text with one line of at most       *)
(* MaxInlinePieces pieces (a bold span, an emphasis span, a code span, a   *)
(* letter, a comma, a lone asterisk); the line is the heading's own text   *)
(* or the line after the heading.                                          *)
(***************************************************************************)
MaxInlinePieces == 3

InlinePieces ==
  {<<"*", "*", "b", "*", "*">>,
   <<"*", "c", "*">>,
   <<BACKTICK, "d", BACKTICK>>,
   <<"a">>,
   <<",">>,
   <<"*">>}

InlineLines ==
  UNION {{joinAll(q) : q \in [1..k -> InlinePieces]} : k \in 1..MaxInlinePieces}

InitInline ==
  /\ impl \in {"part_000", "util"}
  /\ rawInput \in {Str(<<"#", " ", "T", LF>> \o l) : l \in InlineLines}
                  \cup {Str(<<"#", " ">> \o l) : l \in InlineLines}
  /\ optionsInput = Undefined
  /\ pc = "call"
  /\ ret = NotCalled
  /\ invocations = <<>>
  /\ ChatMounted

SpecInline == InitInline /\ [][Next]_vars

(***************************************************************************)
(* Bold and emphasis spans (checked under SpecInline).                     *)
(***************************************************************************)
C22_Markdown ==
  pc = "done" /\ ret.kind = "return" /\ ret.variant = "markdown"

\* the characters of s from index a up to index e (exclusive) are the text of
\* a span: at least one character, none an asterisk, a backtick or a line break
C22_SpanText(s, a, e) ==
  /\ a < e /\ e <= Len(s)
  /\ \A k \in a..(e - 1) : At(s, k) \notin {"*", BACKTICK, LF}

\* a '**text**' span from index i, its closing asterisks at index e
C22_BoldSpan(s, i, e) ==
  /\ OccursAt(s, i, <<"*", "*">>) /\ OccursAt(s, e, <<"*", "*">>)
  /\ C22_SpanText(s, i + 2, e)

\* a '*text*' span from index i, its closing asterisk at index e
C22_EmphasisSpan(s, i, e) ==
  /\ OccursAt(s, i, <<"*">>) /\ OccursAt(s, e, <<"*">>)
  /\ C22_SpanText(s, i + 1, e)

\* s from index k on is a sequence of bold spans, emphasis spans and
\* characters other than the asterisk
RECURSIVE C22_Spans(_, _)
C22_Spans(s, k) ==
  \/ k >= Len(s)
  \/ At(s, k) # "*" /\ C22_Spans(s, k + 1)
  \/ \E e \in (k + 3)..(Len(s) - 2) :
       C22_BoldSpan(s, k, e) /\ C22_Spans(s, e + 2)
  \/ \E e \in (k + 2)..(Len(s) - 1) :
       C22_EmphasisSpan(s, k, e) /\ C22_Spans(s, e + 1)

\* index i is where a span of s starts: what precedes it is a sequence of
\* spans and other characters
C22_SpanStart(s, i) == C22_Spans(substring(s, 0, i), 0)

C22_InlineDepth(out, p, open, close) ==
  Cardinality({q \in 1..p : out[q] = open})
  - Cardinality({q \in 1..p : out[q] = close})

\* the bold and emphasis elements of the output are well formed: each has
\* its opening and closing tag, and where one lies in the other it lies
\* wholly in it
C22_WellFormed(out) ==
  /\ \A p \in 1..Len(out) :
       /\ C22_InlineDepth(out, p, "<strong>", "</strong>") \in {0, 1}
       /\ C22_InlineDepth(out, p, "<em>", "</em>") \in {0, 1}
  /\ C22_InlineDepth(out, Len(out), "<strong>", "</strong>") = 0
  /\ C22_InlineDepth(out, Len(out), "<em>", "</em>") = 0
  /\ \A p \in 1..Len(out) : \A q \in p..Len(out) :
       /\ out[p] = "<strong>" /\ out[q] = "</strong>"
       /\ \A r \in (p + 1)..(q - 1) : out[r] # "</strong>"
       => C22_InlineDepth(out, p, "<em>", "</em>")
            = C22_InlineDepth(out, q, "<em>", "</em>")
          /\ \A r \in p..q :
               C22_InlineDepth(out, r, "<em>", "</em>")
                 >= C22_InlineDepth(out, p, "<em>", "</em>")

\* every bold span of a text made of spans becomes a bold element
C22_BoldSpansBecomeBold ==
  C22_Markdown =>
    \A i \in 0..Len(ret.cleanData) : \A e \in 0..Len(ret.cleanData) :
      /\ C22_SpanStart(ret.cleanData, i)
      /\ C22_BoldSpan(ret.cleanData, i, e)
      /\ C22_Spans(ret.cleanData, e + 2)
      => includes(ret.value,
                  <<"<strong>">> \o substring(ret.cleanData, i + 2, e)
                  \o <<"</strong>">>)

\* every emphasis span of a text made of spans becomes an emphasis element
C22_EmphasisSpansBecomeEmphasis ==
  C22_Markdown =>
    \A i \in 0..Len(ret.cleanData) : \A e \in 0..Len(ret.cleanData) :
      /\ C22_SpanStart(ret.cleanData, i)
      /\ C22_EmphasisSpan(ret.cleanData, i, e)
      /\ C22_Spans(ret.cleanData, e + 1)
      => includes(ret.value,
                  <<"<em>">> \o substring(ret.cleanData, i + 1, e) \o <<"</em>">>)

C22_ElementsWellFormed == C22_Markdown => C22_WellFormed(ret.value)

\* C22: the markdown substitutions run headings, bold, emphasis, inline code
\* and a later one never corrupts the output of an earlier one: every
\* '**text**' span becomes one well-formed bold element, none of its
\* asterisks taken by the emphasis substitution, and every '*text*' span
\* outside bold spans becomes one emphasis element.
C22_InlineSpans ==
  /\ C22_BoldSpansBecomeBold
  /\ C22_EmphasisSpansBecomeEmphasis
  /\ C22_ElementsWellFormed

(***************************************************************************)
(* SpecHeaded: part_000 on every text of at most MaxHeadedLines lines      *)
(* among the bold item headings '**1. Q**' and '**2. K**' and body lines   *)
(* (an 'Available in' line, a key and value, a word, a bullet line).       *)
(***************************************************************************)
MaxHeadedLines == 4

HeadedLines ==
  {<<"*", "*", "1", ".", " ", "Q", "*", "*">>,
   <<"*", "*", "2", ".", " ", "K", "*", "*">>,
   AvailableLine,
   <<"S", "i", "z", "e", ":", " ", "L">>,
   <<"a">>,
   <<"-", " ", "c">>}

InitHeaded ==
  /\ impl = "part_000"
  /\ rawInput \in {Str(t) : t \in TextsOfLines(HeadedLines, MaxHeadedLines)}
  /\ optionsInput = Undefined
  /\ pc = "call"
  /\ ret = NotCalled
  /\ invocations = <<>>
  /\ ChatMounted

SpecHeaded == InitHeaded /\ [][NextNumbered]_vars

(***************************************************************************)
(* Items written '**N. Name**' (checked under SpecHeaded).                 *)
(***************************************************************************)
\* line is the bold heading '**N. Name**' of an item
C23_IsHeadingLine(line) ==
  /\ Len(line) >= 8
  /\ OccursAt(line, 0, <<"*", "*">>) /\ OccursAt(line, Len(line) - 2, <<"*", "*">>)
  /\ At(line, 2) \in Digit /\ At(line, 3) = "." /\ At(line, 4) = " "
  /\ \A k \in 5..(Len(line) - 3) : At(line, k) \notin {"*", LF}

C23_NameOf(line) == substring(line, 5, Len(line) - 2)

\* the indices of the heading lines among the lines of the text, in order
C23_Headings(lines) ==
  SelectSeq([i \in 1..Len(lines) |-> i],
            LAMBDA i : C23_IsHeadingLine(lines[i]))

\* the input is a product listing whose items are written '**N. Name**'
\* followed by body lines: the first line is a heading, and every heading is
\* followed by at least one line that is none
C23_HeadedInput ==
  /\ pc = "done" /\ ret.kind = "return" /\ ret.shape = "NumberedList"
  /\ isProductLike(ret.cleanData)
  /\ C23_IsHeadingLine(splitLines(ret.cleanData)[1])
  /\ \A i \in 1..Len(splitLines(ret.cleanData)) :
       C23_IsHeadingLine(splitLines(ret.cleanData)[i])
         => /\ i < Len(splitLines(ret.cleanData))
            /\ ~C23_IsHeadingLine(splitLines(ret.cleanData)[i + 1])

\* the index in a fragment of the unit that closes the item's heading
C23_HeadingEnd(frag) ==
  CHOOSE p \in 0..Len(frag) :
    \/ p > 0 /\ frag[p] = "\n      </h3>\n      \n      "
    \/ p = 0 /\ \A q \in 1..Len(frag) : frag[q] # "\n      </h3>\n      \n      "

\* C23: for an input whose items are written '**N. Name**' followed by body
\* lines, the product-item renderer takes the bold heading as title and
\* removes it from the body: the rendered heading of item N contains Name and
\* the body beneath it does not.
C23_HeadingHoldsName ==
  C23_HeadedInput =>
    /\ Len(ret.fragments) = Len(C23_Headings(splitLines(ret.cleanData)))
    /\ \A k \in 1..Len(ret.fragments) :
         k <= Len(C23_Headings(splitLines(ret.cleanData))) =>
           /\ C23_HeadingEnd(ret.fragments[k]) > 0
           /\ includes(
                SubSeq(ret.fragments[k], 1, C23_HeadingEnd(ret.fragments[k])),
                C23_NameOf(splitLines(ret.cleanData)[
                             C23_Headings(splitLines(ret.cleanData))[k]]))
           /\ ~includes(
                SubSeq(ret.fragments[k], C23_HeadingEnd(ret.fragments[k]) + 1,
                       Len(ret.fragments[k])),
                C23_NameOf(splitLines(ret.cleanData)[
                             C23_Headings(splitLines(ret.cleanData))[k]]))

(***************************************************************************)
(* SpecBody: part_000 on every text of at most MaxBodyLines lines among    *)
(* two items with a bold name (each name a product keyword) and body       *)
(* lines: bullet lines, an 'Available in' line, a word, a line with a      *)
(* hyphen between two words.                                               *)
(***************************************************************************)
MaxBodyLines == 3

BodyLines ==
  {<<"1", ".", " ", "*", "*", "S", "i", "z", "e", "*", "*">>,
   <<"2", ".", " ", "*", "*", "C", "o", "l", "o", "r", "*", "*">>,
   AvailableLine,
   <<"-", " ", "c">>,
   <<"*", " ", "d">>,
   <<"b", " ", "-", " ", "e">>,
   <<"a">>}

InitBody ==
  /\ impl = "part_000"
  /\ rawInput \in {Str(t) : t \in TextsOfLines(BodyLines, MaxBodyLines)}
  /\ optionsInput = Undefined
  /\ pc = "call"
  /\ ret = NotCalled
  /\ invocations = <<>>
  /\ ChatMounted

SpecBody == InitBody /\ [][NextNumbered]_vars

(***************************************************************************)
(* The body of a product item (checked under SpecBody).                    *)
(***************************************************************************)
\* the items of the result were rendered by the product-item renderer
C24_ProductItems ==
  /\ pc = "done" /\ ret.kind = "return"
  /\ ret.variant = "general" /\ isProductLike(ret.cleanData)

\* the body that remains of an item's content once its title is taken
C24_Body(content) ==
  stripLeadingColon(unboldNumbers(trim(productTitle(content).remaining), 0))

\* a body line prefixed with '-', the glyph or '*': the sign, white space, text
C24_IsBulletLine(line) ==
  /\ Len(line) >= 3 /\ At(line, 0) \in BulletChars /\ At(line, 1) \in WS
  /\ trim(substringFrom(line, 1)) # <<>>

\* one list entry per bullet line of the body, in order
C24_Entries(body) ==
  [k \in 1..Len(SelectSeq(splitLines(body), C24_IsBulletLine)) |->
     trim(substringFrom(SelectSeq(splitLines(body), C24_IsBulletLine)[k], 1))]

\* the markup of an item as the claim has it: the list of the body's bullet
\* lines when there is one, else the 'Available in' clause when there is
\* one, else the body as it is
C24_Expected(item, colors) ==
  productItemHtml(item, productTitle(item.content).title,
                  C24_Body(item.content), C24_Entries(C24_Body(item.content)),
                  availableInMatch(C24_Body(item.content)), colors)

\* C24: the product-item renderer renders an unordered list beneath the
\* title exactly when the remaining body has a line prefixed with '-', the
\* glyph or '*', one entry per such line; without such a line it renders the
\* 'Available in' clause if there is one and otherwise the body verbatim, so
\* that no body text without structure is lost.
C24_ListOrBody ==
  C24_ProductItems =>
    /\ Len(ret.fragments) = Len(ret.items)
    /\ \A k \in 1..Len(ret.items) :
         k <= Len(ret.fragments) =>
           ret.fragments[k] = C24_Expected(ret.items[k], ret.colors)

(***************************************************************************)
(* SpecGeneric: part_000 on every text of at most MaxGenericLines lines    *)
(* among an item with a bold title, an item without, a word, two bullet    *)
(* lines and an indented bullet line; none has a product keyword.          *)
(***************************************************************************)
MaxGenericLines == 4

GenericLines ==
  {<<"1", ".", " ", "*", "*", "T", "*", "*">>,
   <<"2", ".", " ", "b">>,
   <<"a">>,
   <<"-", " ", "c">>,
   <<"*", " ", "d">>,
   <<" ", "-", " ", " ", "g">>}

InitGeneric ==
  /\ impl = "part_000"
  /\ rawInput \in {Str(t) : t \in TextsOfLines(GenericLines, MaxGenericLines)}
  /\ optionsInput = Undefined
  /\ pc = "call"
  /\ ret = NotCalled
  /\ invocations = <<>>
  /\ ChatMounted

SpecGeneric == InitGeneric /\ [][NextNumbered]_vars

(***************************************************************************)
(* The body lines of a generic list item (checked under SpecGeneric).      *)
(***************************************************************************)
\* the items of the result were rendered by the generic-list-item renderer
C25_GenericItems ==
  /\ pc = "done" /\ ret.kind = "return"
  /\ ret.variant = "general" /\ ~isProductLike(ret.cleanData)

\* the item is rendered with a title and its body lines beneath it
C25_Titled(item) ==
  /\ Len(subItemsOf(mainCategoryMatch(item.content))) = 0
  /\ genericTitle(item.content).hasBoldTitle
     \/ genericTitle(item.content).title # <<>>

C25_NotBlank(line) == trim(line) # <<>>

\* the body lines of the item, blank lines left out, each trimmed
C25_Lines(item) ==
  [k \in 1..Len(SelectSeq(splitLines(genericTitle(item.content).remaining),
                          C25_NotBlank)) |->
     trim(SelectSeq(splitLines(genericTitle(item.content).remaining),
                    C25_NotBlank)[k])]

C25_IsBullet(line) ==
  Len(line) >= 2 /\ At(line, 0) \in BulletChars /\ At(line, 1) \in WS

\* the number of bullet lines among the first k lines
C25_BulletsUpTo(lines, k) ==
  Cardinality({j \in 1..k : C25_IsBullet(lines[j])})

\* line k as it stands in the output: a bullet line opens a list entry with
\* its text, a line after a bullet line is joined to the entry with one
\* space, a line before every bullet line is a paragraph
C25_LinePiece(lines, k) ==
  IF C25_IsBullet(lines[k])
  THEN (IF C25_BulletsUpTo(lines, k) > 1 THEN <<"</li>">> ELSE <<>>)
       \o <<"<li>">> \o substringFrom(lines[k], RunEnd(lines[k], 1, WS))
  ELSE IF C25_BulletsUpTo(lines, k) > 0
       THEN <<" ">> \o lines[k]
       ELSE <<"<p class=\"mb-2\">">> \o lines[k] \o <<"</p>">>
            \o (IF k < Len(lines) /\ C25_IsBullet(lines[k + 1])
                THEN <<"\n                <ul class=\"list-disc pl-4 my-2 space-y-1 text-[14px]\">\n                  ">>
                ELSE <<>>)

\* the body of the item: the pieces of its lines in the order of the lines
C25_Body(lines) ==
  (IF lines # <<>> /\ C25_IsBullet(lines[1])
   THEN <<"\n                <ul class=\"list-disc pl-4 my-2 space-y-1 text-[14px]\">\n                  ">>
   ELSE <<>>)
  \o joinAll([k \in 1..Len(lines) |-> C25_LinePiece(lines, k)])
  \o (IF C25_BulletsUpTo(lines, Len(lines)) > 0
      THEN <<"</li>", "\n                </ul>\n              ">>
      ELSE <<>>)

\* what the fragment of a titled item holds beneath its title
C25_Beneath(lines, colors) ==
  <<"\n        </h3>\n        <div class=\"pl-6 mt-2 leading-relaxed\" style=\"color: ">>
  \o Interp(colors.foreground) \o <<";\">\n          ">>
  \o C25_Body(lines)
  \o <<"\n        </div>\n      </div>\n    ">>

\* C25: the generic-list-item renderer scans the body lines with two states:
\* a bullet line joins the bullet run, a non-empty line after a bullet run is
\* joined with one space to the run's last bullet, a line outside a run is a
\* text line, and the paragraphs and the list are emitted in the order of
\* the lines with no line lost.
C25_BodyLinesInOrder ==
  C25_GenericItems =>
    /\ Len(ret.fragments) = Len(ret.items)
    /\ \A k \in 1..Len(ret.items) :
         k <= Len(ret.fragments) /\ C25_Titled(ret.items[k]) =>
           /\ includes(ret.fragments[k],
                       C25_Beneath(C25_Lines(ret.items[k]), ret.colors))
           /\ \A j \in 1..Len(C25_Lines(ret.items[k])) :
                includes(ret.fragments[k],
                         IF C25_IsBullet(C25_Lines(ret.items[k])[j])
                         THEN substringFrom(C25_Lines(ret.items[k])[j],
                                RunEnd(C25_Lines(ret.items[k])[j], 1, WS))
                         ELSE C25_Lines(ret.items[k])[j])

\* an item with a text line, a bullet line, a line joined to it and a
\* second bullet line
C25_Witness ==
  /\ C25_GenericItems
  /\ \E k \in 1..Len(ret.items) :
       /\ C25_Titled(ret.items[k])
       /\ Len(C25_Lines(ret.items[k])) >= 3
       /\ C25_IsBullet(C25_Lines(ret.items[k])[1])
       /\ ~C25_IsBullet(C25_Lines(ret.items[k])[2])
       /\ C25_IsBullet(C25_Lines(ret.items[k])[3])

(***************************************************************************)
(* Feature extraction of util.js (checked under SpecProduct).              *)
(***************************************************************************)
\* the items of the result were rendered by the product-item renderer of
\* util.js
C26_ProductItems ==
  /\ pc = "done" /\ impl = "util" /\ ret.kind = "return"
  /\ ret.shape = "NumberedList" /\ isProductLike(ret.cleanData)

\* row k of the pattern table yields a feature for the line
C26_RowYields(k, line) ==
  IF k <= 18
  THEN patternMatch_util(k, line).found /\ patternMatch_util(k, line).group # <<>>
  ELSE IF k = 19 THEN bulletKeyValue_util(line).found
       ELSE bulletFeature_util(line).found

C26_FirstRow(line) ==
  CHOOSE k \in 1..20 :
    C26_RowYields(k, line) /\ \A j \in 1..(k - 1) : ~C26_RowYields(j, line)

\* the feature of row k for the line
C26_RowFeature(k, line) ==
  IF k <= 18
  THEN [key |-> <<patterns_util[k].key>>,
        value |-> trim(patternMatch_util(k, line).group)]
  ELSE IF k = 19
       THEN [key |-> bulletKeyValue_util(line).key,
             value |-> bulletKeyValue_util(line).value]
       ELSE [key |-> <<"Feature">>, value |-> bulletFeature_util(line).value]

\* the features of a line matched by a row of the table or holding a colon:
\* the first row that matches gives the key; without such a row the text
\* before the colon is the key
C26_KeyedFeature(line) ==
  IF \E k \in 1..20 : C26_RowYields(k, line)
  THEN <<C26_RowFeature(C26_FirstRow(line), line)>>
  ELSE IF genericKeyValue_util(line).found
       THEN <<[key |-> genericKeyValue_util(line).key,
               value |-> genericKeyValue_util(line).value]>>
       ELSE <<>>

\* the features of a line: the keyed feature, or for a non-empty line
\* without one the description with the empty key
C26_LineFeature(line) ==
  IF C26_KeyedFeature(line) # <<>> THEN C26_KeyedFeature(line)
  ELSE IF trim(line) # <<>> THEN <<[key |-> <<>>, value |-> trim(line)]>>
       ELSE <<>>

C26_Features(content) ==
  joinAll([k \in 1..Len(splitLines(content)) |->
             C26_LineFeature(splitLines(content)[k])])

C26_KeyedFeatures(content) ==
  joinAll([k \in 1..Len(splitLines(content)) |->
             C26_KeyedFeature(splitLines(content)[k])])

\* the first two clauses alone: every rendered feature is the keyed feature
\* of its line
C26_KeyedFeaturesRendered ==
  C26_ProductItems =>
    \A k \in 1..Len(ret.items) :
      k <= Len(ret.fragments) =>
        ret.fragments[k]
          = productItemHtml_util(ret.items[k],
              productTitle_util(ret.items[k].content),
              C26_KeyedFeatures(ret.items[k].content), ret.colors)

\* C26: feature extraction goes through the pattern table top to bottom for
\* each line of an item and the first row that matches gives the feature's
\* key, at most one feature per line; a line matching no row but holding a
\* colon gives a key:value feature; a non-empty line matching no row and
\* holding no colon gives a description feature with an empty key.
C26_OneFeaturePerLine ==
  C26_ProductItems =>
    /\ Len(ret.fragments) = Len(ret.items)
    /\ \A k \in 1..Len(ret.items) :
         k <= Len(ret.fragments) =>
           ret.fragments[k]
             = productItemHtml_util(ret.items[k],
                 productTitle_util(ret.items[k].content),
                 C26_Features(ret.items[k].content), ret.colors)

(***************************************************************************)
(* Classifier and bullet segmenter (checked under SpecBulletScan).         *)
(***************************************************************************)
\* the segmenter's scan finds a list line in the text
C27_HasListLine(text) ==
  \E k \in 1..Len(splitParagraphs(text)) :
    /\ hasBulletLine(splitParagraphs(text)[k])
    /\ \E i \in 1..Len(splitLines(splitParagraphs(text)[k])) :
         bulletMatch(splitLines(splitParagraphs(text)[k])[i]).found

\* C27: whenever the classifier selects the bullet-list shape, the
\* bullet-list segmenter finds at least one line starting with a bullet
\* prefix and the output has at least one unordered-list fragment.
C27_ClassifierAndSegmenterAgree ==
  pc = "done" /\ ret.kind = "return" /\ ret.shape = "BulletList" =>
    /\ C27_HasListLine(ret.cleanData)
    /\ \E p \in 1..Len(ret.value) : C21_IsOpen(ret.value[p])

(***************************************************************************)
(* The chat component of home.js.  The window is taken as open and         *)
(* expanded, which is when the input, the quick-response buttons and the   *)
(* rating buttons are rendered.  A sendMessage call runs up to its fetch   *)
(* in one step and from the settling of the fetch to its end in another;   *)
(* several calls can be awaiting their fetch at once.                      *)
(***************************************************************************)
MaxSends == 2
MaxClock == 1

quickResponses ==
  <<<<"Different bed sizes available">>, <<"Outdoor dining tables">>,
    <<"Unique Sofa sets colors">>, <<"Living room furniture colors">>>>

\* the quick-response buttons that are clicked; the four differ in their text
\* only
ClickedResponses == {1}

\* what the user types into the input
InputValues == {<<>>, <<" ">>, <<"h", "i">>}

\* data.response of the upstream reply: a text, the empty text, no such key,
\* a number
Responses == {Str(<<"a">>), Str(<<>>), Undefined, Num(42)}

isBlankMutantEmptyOnly(messageText) == messageText = <<>>

\* !messageText.trim()
isBlank(messageText) == trim(messageText) = <<>>

botTextMutantNoFallback(text) == text

\* formatMessage(data.response) || 'Sorry, I could not process your request.'
botText(text) == IF text = <<>> THEN FallbackText ELSE text

\* formatMessage(data.response) for each of the upstream replies
formatted == [response \in Responses |-> formatMessage_util(response, Undefined)]

\* the message that the try block or, when formatMessage throws, the catch
\* block adds for the reply
replyMessage(id, result) ==
  IF result.kind = "throw" THEN errorMessage(id)
  ELSE botMessage(id, botText(result.value))

\* the rating buttons are rendered under the message
ratingPromptShown(message) ==
  /\ message.showRating
  /\ currentRatingMessageId = Num(message.id)
  /\ showRating
  /\ ~message.rated

Pending == {i \in 1..Len(requests) : requests[i].status = "pending"}

formatterVars == <<impl, rawInput, optionsInput, pc, ret, invocations>>

\* onChange of the input
onChange ==
  /\ \E value \in InputValues : value # inputValue /\ inputValue' = value
  /\ UNCHANGED <<messages, isLoading, showRating, currentRatingMessageId,
                 requests, now, formatterVars>>

\* sendMessage up to the fetch; quickResponseText is Null or Str(text)
sendMessage(quickResponseText) ==
  IF isBlank(IF quickResponseText.t = "string" /\ quickResponseText.s # <<>>
             THEN quickResponseText.s ELSE inputValue)
  THEN UNCHANGED vars
  ELSE /\ Len(requests) < MaxSends
       /\ messages' =
            Append(messages,
                   userMessage(now, IF quickResponseText.t = "string"
                                       /\ quickResponseText.s # <<>>
                                    THEN quickResponseText.s ELSE inputValue))
       /\ inputValue' = <<>>
       /\ isLoading' = TRUE
       /\ requests' =
            Append(requests,
                   [message |-> IF quickResponseText.t = "string"
                                   /\ quickResponseText.s # <<>>
                                THEN quickResponseText.s ELSE inputValue,
                    status |-> "pending"])
       /\ UNCHANGED <<showRating, currentRatingMessageId, now, formatterVars>>

\* the form's onSubmit: the submit button is disabled while the input is
\* blank or isLoading is true
handleSubmit ==
  /\ ~isBlank(inputValue) /\ ~isLoading
  /\ sendMessage(Null)

\* Enter without Shift in the input
handleKeyPress == sendMessage(Null)

\* a click on one of the quick-response buttons under the welcome message
handleQuickResponse ==
  /\ \E i \in 1..Len(messages) : messages[i].showQuickResponses
  /\ \E k \in ClickedResponses : sendMessage(Str(quickResponses[k]))

\* the fetch of request i resolves with an ok response whose JSON holds
\* response: the rest of the try block, or the catch block when formatMessage
\* throws, then the finally block
fetchResolves ==
  \E i \in Pending : \E response \in Responses :
    /\ messages' =
         Append(messages, replyMessage(now, formatted[response]))
    /\ IF formatted[response].kind = "throw"
       THEN UNCHANGED <<currentRatingMessageId, showRating>>
       ELSE currentRatingMessageId' = Num(now) /\ showRating' = TRUE
    /\ isLoading' = FALSE
    /\ requests' = [requests EXCEPT ![i].status = "settled"]
    /\ UNCHANGED <<inputValue, now, formatterVars>>

\* the fetch of request i rejects, or its response is not ok, or its body is
\* no JSON: the catch block, then the finally block
fetchFails ==
  \E i \in Pending :
    /\ messages' = Append(messages, errorMessage(now))
    /\ isLoading' = FALSE
    /\ requests' = [requests EXCEPT ![i].status = "settled"]
    /\ UNCHANGED <<inputValue, showRating, currentRatingMessageId, now,
                   formatterVars>>

\* a click on one of the two rating buttons under a message
handleRating ==
  \E i \in 1..Len(messages) : \E isPositive \in BOOLEAN :
    /\ ratingPromptShown(messages[i])
    /\ messages' =
         [k \in 1..Len(messages) |->
            IF messages[k].id = messages[i].id
            THEN [messages[k] EXCEPT
                    !.rated = TRUE,
                    !.rating = IF isPositive THEN "positive" ELSE "negative"]
            ELSE messages[k]]
    /\ showRating' = FALSE
    /\ UNCHANGED <<inputValue, isLoading, currentRatingMessageId, requests, now,
                   formatterVars>>

\* Date.now() moves on to a later millisecond; ids are only compared with
\* each other, so the clock moves on from a millisecond that is some
\* message's id
Tick ==
  /\ now < MaxClock
  /\ \E i \in 1..Len(messages) : messages[i].id = now
  /\ now' = now + 1
  /\ UNCHANGED <<messages, inputValue, isLoading, showRating,
                 currentRatingMessageId, requests, formatterVars>>

InitChat ==
  /\ impl = "util"
  /\ rawInput = Undefined
  /\ optionsInput = Undefined
  /\ pc = "call"
  /\ ret = NotCalled
  /\ invocations = <<>>
  /\ ChatMounted

NextChat ==
  \/ onChange
  \/ handleSubmit
  \/ handleKeyPress
  \/ handleQuickResponse
  \/ fetchResolves
  \/ fetchFails
  \/ handleRating
  \/ Tick

SpecChat == InitChat /\ [][NextChat]_vars

(***************************************************************************)
(* The loading flag (checked under SpecChat).                              *)
(***************************************************************************)
\* C28: isLoading is true in every state in which at least one sendMessage
\* request is still awaiting its response, whatever the interleaving of
\* sends (Enter key, form submit, quick-response buttons) and completions.
C28_LoadingWhilePending == Pending # {} => isLoading

(***************************************************************************)
(* One user message per call, one bot message per settled request          *)
(* (checked under SpecChat).                                               *)
(***************************************************************************)
C29_UserMessages == SelectSeq(messages, LAMBDA message : message.sender = "user")

\* the places of the bot messages other than the welcome message
C29_Replies ==
  {i \in 1..Len(messages) :
     messages[i].sender = "bot" /\ ~messages[i].showQuickResponses}

C29_Settled == {i \in 1..Len(requests) : requests[i].status = "settled"}

\* the formatted replies to the upstream texts
C29_Formatted ==
  {formatted[response].value :
     response \in {r \in Responses : formatted[r].kind # "throw"}}

C29_ReplyTexts == (C29_Formatted \ {<<>>}) \cup {FallbackText, ErrorText}

\* C29: a sendMessage call with an empty or whitespace-only message changes
\* nothing; every other call appends exactly one user message at once and,
\* once its request has settled, exactly one bot message, whose text is the
\* formatted reply, the fallback text where the formatter returns the empty
\* string, or the error text; after all outstanding requests have settled
\* isLoading is false.
C29_OneReplyPerRequest ==
  /\ Len(C29_UserMessages) = Len(requests)
  /\ \A i \in 1..Len(requests) :
       /\ C29_UserMessages[i].text = requests[i].message
       /\ trim(requests[i].message) # <<>>
  /\ Cardinality(C29_Replies) = Cardinality(C29_Settled)
  /\ Len(messages) = 1 + Len(requests) + Cardinality(C29_Settled)
  /\ \A i \in C29_Replies :
       /\ messages[i].text # <<>>
       /\ messages[i].text \in C29_ReplyTexts
       /\ messages[i].showRating <=> messages[i].text # ErrorText
  /\ isLoading => Pending # {}
  /\ Pending = {} => ~isLoading

\* two requests have settled, one answered with the fallback text and one
\* with the error text, and a whitespace-only input is in the field
C29_Witness ==
  /\ Len(requests) = 2 /\ Pending = {}
  /\ \E i \in 1..Len(messages) : messages[i].text = FallbackText
  /\ \E i \in 1..Len(messages) : messages[i].text = ErrorText
  /\ inputValue = <<" ">>
  /\ ~isLoading

(***************************************************************************)
(* The rating prompt (checked under SpecChat).                             *)
(***************************************************************************)
C30_Prompted == {i \in 1..Len(messages) : ratingPromptShown(messages[i])}

\* the successfully answered bot messages
C30_Answered == {i \in 1..Len(messages) : messages[i].showRating}

C30_MostRecent(i) == \A k \in C30_Answered : k <= i

\* C30: the rating prompt is displayed for at most one message, the most
\* recent successfully answered bot message while it is unrated; a message
\* that handleRating has marked rated has no prompt.
C30_AtMostOnePrompt ==
  /\ Cardinality(C30_Prompted) <= 1
  /\ \A i \in C30_Prompted : C30_MostRecent(i) /\ ~messages[i].rated
  /\ \A i \in 1..Len(messages) : messages[i].rated => i \notin C30_Prompted

\* the same holds of every state in which the answered messages were created
\* at different milliseconds
C30_DistinctIds ==
  \A i, k \in C30_Answered : messages[i].id = messages[k].id => i = k

C30_OnePromptWhenIdsDiffer == C30_DistinctIds => C30_AtMostOnePrompt

====
